---- MODULE Spec2Model ----
(***************************************************************************)
(* PFMEA agent: the orchestration pipeline of                              *)
(* backend/app/services/agent_pipeline.py (AgenticPFMEAPipeline),          *)
(* the risk engine of backend/app/services/pfmea_engine.py (RiskMatrix)    *)
(* and the fan-out over process steps of                                   *)
(* backend/app/api/routes/analysis.py (process_analysis).                  *)
(*                                                                         *)
(* Tasks are asyncio tasks: a task runs without interruption from one      *)
(* await to the next, so one action of the model is the code between two   *)
(* suspension points of one task (a semaphore acquisition or a model call  *)
(* in flight).  Awaited progress emissions inside such a segment are part  *)
(* of the segment: they touch no pipeline state.                           *)
(***************************************************************************)
EXTENDS Integers, Sequences, FiniteSets, TLC

\* ------------------------------------------------------------------ bounds
NumSteps == 2          \* process steps (operations) handed to one run
MaxCandidates == 2     \* failure modes one ANALYZE response may list
MaxTasks == 4          \* candidate tasks of one run: steps x failure modes
MaxRating == 6         \* integer ratings the model may answer: 0..MaxRating
MaxRetries == 3        \* retries handed to _generate_with_retry: 0..MaxRetries
MaxBaseDelay == 5      \* base_delay handed to it, in seconds: 1..MaxBaseDelay
MaxRequests == 2       \* start_analysis requests for one analysis id
MaxResults == 1        \* results one run of process_analysis gathers
MaxConnections == 2    \* WebSocket connections opened in all

\* ------------------------------------------------------- program constants
max_retries == 2                \* AgenticPFMEAPipeline.__init__
failure_mode_concurrency == 1   \* AgenticPFMEAPipeline.__init__
OperationConcurrency == 1       \* process_analysis: asyncio.Semaphore(1)
RpnThreshold == 9               \* skip decision: initial_rpn < 9
DefaultRating == 3              \* neutral default of the range check
DefaultRetries == 2             \* _generate_with_retry: retries
DefaultBaseDelay == 5           \* _generate_with_retry: base_delay
FirstLineLimit == 100           \* FINALIZE: len(first_line) < 100

Ops == 1..NumSteps
Fms == 1..MaxCandidates
Runs == 1..NumSteps

VARIABLES
    runOf,                   \* op -> the process_analysis run it belongs to
    nOps,                    \* operations parsed from the PDFs (all runs)
    maxFm,                   \* most failure modes the model lists per step
    modelVals,               \* rating values the model may answer with
    sinkFlaky,               \* whether an emission to the sink may raise
    malformed,               \* whether the model may answer with no JSON
    progress_callback,       \* run -> whether analyze_step is given a sink
    scripted,                \* whether the model answers by the script
    script,                  \* the answer to each call of a step, in order
    include_justifications,  \* run -> detailed (TRUE) or fast (FALSE) mode
    opSem,                   \* run -> free slots of process_analysis' semaphore
    opPc,                    \* op -> position of its process_operation task
    opOut,                   \* op -> candidates whose results it returned
    analyzed,                \* op -> the answer its ANALYZE call got
    candSem,                 \* op -> free slots of analyze_step's semaphore
    cand,                    \* op -> candidate -> process_failure_mode task
    events,                  \* progress events delivered to the sink
    runStatus,               \* run -> Analysis.status
    saved,                   \* run -> results handed to the database
    retries,                 \* _generate_with_retry: its argument
    base_delay,              \* _generate_with_retry: its argument
    genPc,                   \* _generate_with_retry: position of the call
    attempt,                 \* _generate_with_retry: its local counter
    outcomes,                \* how each generate() issued so far ended
    delays,                  \* the sleeps taken so far, in seconds
    ratingS,                 \* RiskMatrix: the severity it is called with
    ratingO,                 \* RiskMatrix: the occurrence it is called with
    rpnOut,                  \* how calculate_rpn ended
    riskOut,                 \* how get_risk_level ended
    actionOut,               \* how get_action_required ended
    process_step,            \* FINALIZE: the step a result is built for
    subprocess_name,         \* FINALIZE: the result's subprocess field
    status,                  \* Analysis.status of one analysis id
    replies,                 \* what start_analysis answered, in order
    taskPc,                  \* request -> the process_analysis it scheduled
    all_results,             \* request -> results its run gathered
    inserted,                \* the bulk inserts into PFMEAResult, in order
    analysisOf,              \* connection -> the analysis id it asked for
    active_connections,      \* ConnectionManager: analysis id -> connections
    wsPc,                    \* connection -> position of websocket_endpoint
    clientOpen,              \* connection -> whether its client is there
    sending                  \* the send_message call under way, if any

\* One call of _generate_with_retry.
retryVars == <<retries, base_delay, genPc, attempt, outcomes, delays>>

\* One use of RiskMatrix.
engineVars == <<ratingS, ratingO, rpnOut, riskOut, actionOut>>

\* One result record built from its step.
fieldVars == <<process_step, subprocess_name>>

\* One analysis id: the requests to start it and the runs they schedule.
jobVars == <<status, replies, taskPc, all_results, inserted>>

\* The progress listeners and the registry that holds them.
registryVars ==
    <<analysisOf, active_connections, wsPc, clientOpen, sending>>

\* What neither the pipeline nor its helpers touch.
sideVars == <<fieldVars, jobVars, registryVars>>

vars == <<runOf, nOps, maxFm, modelVals, sinkFlaky, malformed,
          progress_callback, scripted, script, include_justifications,
          opSem, opPc, opOut, analyzed, candSem, cand, events, runStatus,
          saved, retryVars, engineVars, sideVars>>

config ==
    <<runOf, nOps, maxFm, modelVals, sinkFlaky, malformed,
      progress_callback, scripted, script, include_justifications>>

\* ------------------------------------------------- values of a JSON answer
\* A rating as json.loads delivers it: an integer, a numeric string such as
\* "4", other text, null, an absent key, a mapping holding a convertible
\* value, a mapping holding none.
IntV(n) == [t |-> "int", v |-> n]
NumStr(n) == [t |-> "str", v |-> n]
Text == [t |-> "text", v |-> 0]
Null == [t |-> "null", v |-> 0]
Missing == [t |-> "missing", v |-> 0]
DictOf(n) == [t |-> "dict", v |-> n]
DictBad == [t |-> "dictbad", v |-> 0]

IntVals == {IntV(n) : n \in 0..MaxRating}
WideVals == IntVals \cup {NumStr(4), Text, Null, Missing, DictOf(2), DictBad}
\* A model that answers 3 or a value out of range: 3 / 3 is a provisional
\* RPN of 9, so the VALIDATE loop is entered in detailed mode.
NarrowVals == {IntV(3), IntV(MaxRating + 1)}

InRange(r) == r.t = "int" /\ r.v >= 1 /\ r.v <= 5

\* ------------------------------------------------------------- RiskMatrix
\* Mutant: the cell of severity 4 and occurrence 2 is low.
MATRIXWithDip ==
    << <<"low", "low", "low", "low", "low">>,
       <<"low", "low", "low", "medium", "medium">>,
       <<"low", "low", "medium", "high", "high">>,
       <<"medium", "low", "high", "high", "high">>,
       <<"medium", "high", "high", "high", "high">> >>

\* Mutant: the cell of severity 4 and occurrence 2 is high.
MATRIXHighBelowNine ==
    << <<"low", "low", "low", "low", "low">>,
       <<"low", "low", "low", "medium", "medium">>,
       <<"low", "low", "medium", "high", "high">>,
       <<"medium", "high", "high", "high", "high">>,
       <<"medium", "high", "high", "high", "high">> >>

\* RiskMatrix.MATRIX: severity -> occurrence -> risk level.
MATRIX ==
    << <<"low", "low", "low", "low", "low">>,
       <<"low", "low", "low", "medium", "medium">>,
       <<"low", "low", "medium", "high", "high">>,
       <<"medium", "medium", "high", "high", "high">>,
       <<"medium", "high", "high", "high", "high">> >>

\* The guard of calculate_rpn and get_risk_level: 1 <= r <= 5 for both
\* ratings.  A rating that is no number makes the comparison itself raise
\* (TypeError), an integer out of range raises ValueError: both end the
\* caller the same way.
RatingsAccepted(s, o) == InRange(s) /\ InRange(o)

\* Mutant: the sum of the ratings.
calculate_rpnSum(s, o) == s.v + o.v

\* RiskMatrix.calculate_rpn, for ratings the guard accepts.
calculate_rpn(s, o) == s.v * o.v

\* RiskMatrix.get_risk_level, for ratings the guard accepts.
get_risk_level(s, o) == MATRIX[s.v][o.v]

\* Mutant: a medium risk asks for no action.
get_action_requiredLenient(risk_level) ==
    IF risk_level = "high" THEN "yes" ELSE "no"

\* RiskMatrix.get_action_required.
get_action_required(risk_level) ==
    IF risk_level = "high" THEN "yes"
    ELSE IF risk_level = "medium" THEN "maybe"
    ELSE "no"

\* How a call of RiskMatrix ended: not made yet, returned v, or raised
\* ValueError.  The risk level and the action are text, the RPN a number.
NotCalled(none) == [st |-> "not called", v |-> none]
Returned(v) == [st |-> "returned", v |-> v]
ValueError(none) == [st |-> "ValueError", v |-> none]

\* No use of RiskMatrix under way.
EngineIdle ==
    /\ ratingS = IntV(DefaultRating)
    /\ ratingO = IntV(DefaultRating)
    /\ rpnOut = NotCalled(0)
    /\ riskOut = NotCalled("")
    /\ actionOut = NotCalled("")

\* ------------------------------------------------- RATE: rating coercion
\* for v in rating.values(): try int(str(v).strip()): the first convertible
\* value of a mapping replaces it; a mapping holding none stays a mapping.
FromMapping(r) == IF r.t = "dict" THEN IntV(r.v) ELSE r

\* int(str(rating).strip()) succeeds on a numeric string only.
Convertible(r) == r.t = "int" \/ r.t = "str"
ToInt(r) == IF r.t = "str" THEN IntV(r.v) ELSE r

\* rate_result.get(key): an absent key reads as None.
Get(r) == IF r.t = "missing" THEN Null ELSE r

\* Mutant: the range check lets an integer above the range through.
OrDefaultOpenEnded(r) ==
    IF r.t = "int" /\ r.v >= 1 THEN r ELSE IntV(DefaultRating)

\* The range check with its neutral default.
OrDefault(r) == IF InRange(r) THEN r ELSE IntV(DefaultRating)

\* The whole coercion of the first RATE answer.  Both conversions to int
\* share one try block, severity first: when severity's conversion raises,
\* occurrence's is never attempted.
CoerceRatings(rawS, rawO) ==
    LET s1 == FromMapping(Get(rawS))
        o1 == FromMapping(Get(rawO))
        s2 == IF Convertible(s1) THEN ToInt(s1) ELSE s1
        o2 == IF Convertible(s1) /\ Convertible(o1) THEN ToInt(o1) ELSE o1
    IN  <<OrDefault(s2), OrDefault(o2)>>

\* Mutant: the skip decision forgets fast mode.
SkipValidationIgnoresMode(detailed, s, o) ==
    calculate_rpn(s, o) < RpnThreshold

\* Mutant: the skip decision compares with <= instead of <.
SkipValidationLoose(detailed, s, o) ==
    ~detailed \/ calculate_rpn(s, o) <= RpnThreshold

\* The skip decision: fast mode, or a provisional RPN below the threshold.
SkipValidation(detailed, s, o) ==
    ~detailed \/ calculate_rpn(s, o) < RpnThreshold

\* CORRECT: if corrected.get(key): rating = corrected[key].  Python truth:
\* None, an absent key and 0 leave the rating alone.
Truthy(r) == ~(r.t \in {"null", "missing"}) /\ ~(r.t = "int" /\ r.v = 0)
ApplyCorrection(current, corrected) ==
    IF Truthy(corrected) THEN corrected ELSE current

\* re-RATE: rating = rate_result.get(key, rating): only an absent key keeps
\* the current rating; the answer is stored as it came.
ApplyRerate(current, raw) == IF raw.t = "missing" THEN current ELSE raw

\* Mutant: a decay of 0.1 per retry.
ConfidenceSlowDecay(retry_count) == 10 - retry_count

\* FINALIZE: confidence = 1.0 - 0.2 * retry_count, printed with one decimal;
\* here in tenths.
Confidence(retry_count) == 10 - 2 * retry_count

\* ------------------------------------- one candidate: process_failure_mode
\* pc: "idle" no task yet, "wait" suspended on analyze_step's semaphore,
\* "rate" / "validate" / "rerate" holding a slot with that model call in
\* flight, "done" returned a result, "none" returned None, "raised" ended by
\* an exception, why naming what raised it: "call" the model call, "sink"
\* an awaited emission of an intermediate event, "notify" the awaited
\* emission of new_result, "engine" the risk engine, "answer" the reading
\* of the VALIDATE answer.  validates and rates count the calls issued so far;
\* raw tells that the answer to the latest call was the fallback object.
NewCand ==
    [pc |-> "idle", severity |-> Null, occurrence |-> Null, initial_rpn |-> 0,
     retry_count |-> 0, validates |-> 0, rates |-> 0, result |-> <<>>,
     why |-> "", raw |-> FALSE]

CallPcs == {"rate", "validate", "rerate"}
EndPcs == {"done", "none", "raised"}

\* The exception leaves process_failure_mode, nothing inside it catches,
\* and the locals of the frame are gone.
Raised(c, why) == [NewCand EXCEPT !.pc = "raised", !.why = why]

\* Mutant: the risk level is looked up with the ratings swapped.
MakeResultSwapped(s, o, retry_count) ==
    [severity |-> s, occurrence |-> o,
     rpn |-> calculate_rpn(s, o),
     risk_level |-> get_risk_level(o, s),
     action_required |-> get_action_required(get_risk_level(o, s)),
     confidence |-> Confidence(retry_count)]

\* if not failure_mode or not effect: return None.
ReturnedNone(c) == [c EXCEPT !.pc = "none"]

\* The result dict of FINALIZE.
MakeResult(s, o, retry_count) ==
    [severity |-> s, occurrence |-> o,
     rpn |-> calculate_rpn(s, o),
     risk_level |-> get_risk_level(s, o),
     action_required |-> get_action_required(get_risk_level(s, o)),
     confidence |-> Confidence(retry_count)]

\* STEP 5, FINALIZE, to the return: the risk engine raises on ratings it
\* does not accept.
Finalize(c) ==
    IF RatingsAccepted(c.severity, c.occurrence)
    THEN [c EXCEPT !.pc = "done",
                   !.result = <<MakeResult(c.severity, c.occurrence,
                                           c.retry_count)>>]
    ELSE Raised(c, "engine")

\* Mutant: the loop goes round once more.
LoopHeadOnceMore(c) ==
    IF c.retry_count <= max_retries
    THEN [c EXCEPT !.pc = "validate", !.validates = @ + 1]
    ELSE Finalize(c)

\* while retry_count < max_retries: issue VALIDATE; else fall to FINALIZE.
LoopHead(c) ==
    IF c.retry_count < max_retries
    THEN [c EXCEPT !.pc = "validate", !.validates = @ + 1]
    ELSE Finalize(c)

\* From the RATE answer to the next suspension point.
AfterRate(c, detailed, rawS, rawO) ==
    LET r == CoerceRatings(rawS, rawO)
        c1 == [c EXCEPT !.severity = r[1], !.occurrence = r[2],
                        !.initial_rpn = calculate_rpn(r[1], r[2])]
    IN  IF SkipValidation(detailed, r[1], r[2]) THEN Finalize(c1)
        ELSE LoopHead(c1)

\* Mutant: an answer reporting valid counts as a retry too.
AfterValidateCountsAll(c, resp) ==
    IF resp.valid THEN Finalize([c EXCEPT !.retry_count = @ + 1])
    ELSE IF resp.corr = "null" THEN Raised(c, "answer")
    ELSE LET c1 == [c EXCEPT
                      !.severity = ApplyCorrection(@, resp.cs),
                      !.occurrence = ApplyCorrection(@, resp.co),
                      !.retry_count = @ + 1]
         IN  IF c1.retry_count < max_retries
             THEN [c1 EXCEPT !.pc = "rerate", !.rates = @ + 1]
             ELSE LoopHead(c1)

\* Mutant: CORRECT re-issues RATE whatever retry_count is.
AfterValidateAlwaysRerates(c, resp) ==
    IF resp.valid THEN Finalize(c)
    ELSE IF resp.corr = "null" THEN Raised(c, "answer")
    ELSE [c EXCEPT !.severity = ApplyCorrection(@, resp.cs),
                   !.occurrence = ApplyCorrection(@, resp.co),
                   !.retry_count = @ + 1,
                   !.pc = "rerate", !.rates = @ + 1]

\* Mutant: CORRECT issues the re-RATE call and the next VALIDATE call at
\* once.
AfterValidateBothCalls(c, resp) ==
    IF resp.valid THEN Finalize(c)
    ELSE IF resp.corr = "null" THEN Raised(c, "answer")
    ELSE [c EXCEPT !.severity = ApplyCorrection(@, resp.cs),
                   !.occurrence = ApplyCorrection(@, resp.co),
                   !.retry_count = @ + 1,
                   !.pc = "rerate", !.rates = @ + 1, !.validates = @ + 1]

\* From the VALIDATE answer to the next suspension point.  corr = "null" is
\* an answer whose corrected_ratings is null: corrected.get raises.
AfterValidate(c, resp) ==
    IF resp.valid THEN Finalize(c)
    ELSE IF resp.corr = "null" THEN Raised(c, "answer")
    ELSE LET c1 == [c EXCEPT
                      !.severity = ApplyCorrection(@, resp.cs),
                      !.occurrence = ApplyCorrection(@, resp.co),
                      !.retry_count = @ + 1]
         IN  IF c1.retry_count < max_retries
             THEN [c1 EXCEPT !.pc = "rerate", !.rates = @ + 1]
             ELSE LoopHead(c1)

\* From the re-issued RATE answer to the next suspension point.
AfterRerate(c, rawS, rawO) ==
    LoopHead([c EXCEPT !.severity = ApplyRerate(@, rawS),
                       !.occurrence = ApplyRerate(@, rawO)])

\* ------------------------------------------------------ asyncio.Semaphore
CanAcquire(free) == free > 0
Acquire(free) == free - 1
Release(free) == free + 1

\* Mutant: the slot is given back on a normal return only.
ExitCandGateLeaky(free, pc) ==
    IF pc \in {"done", "none"} THEN Release(free) ELSE free

\* async with semaphore, seen from the end of a segment of
\* process_failure_mode: the slot is given back when the block is left,
\* by return or by exception.
ExitCandGate(free, pc) == IF pc \in EndPcs THEN Release(free) ELSE free

\* Mutant: the slot of process_operation is given back on a return only.
ExitOpGateLeaky(free, pc) == IF pc = "returned" THEN Release(free) ELSE free

\* async with semaphore of process_operation, likewise.
ExitOpGate(free, pc) ==
    IF pc \in {"returned", "raised"} THEN Release(free) ELSE free

\* ------------------------------------------------------- progress events
\* Only the events the properties speak of are recorded: the terminal
\* new_result of a candidate and the error event of process_operation.
NewResultEvent(i, j) ==
    [step |-> "result", status |-> "new_result", op |-> i, fm |-> j]
OperationErrorEvent(i) ==
    [step |-> "operation", status |-> "error", op |-> i, fm |-> 0]

\* ------------------------------------------- generate: the response body
\* The body of a response in json_mode: a JSON object, or text json.loads
\* rejects.  An ANALYZE body lists n failure modes.
JsonBody(n) == [kind |-> "json", n |-> n]
MalformedBody == [kind |-> "malformed", n |-> 0]

\* What generate returns for a body: the parsed object, or on
\* json.JSONDecodeError the fallback {"content": content, "raw": True}, which
\* has none of the keys the pipeline asks for.
Fallback == [raw |-> TRUE, n |-> 0]
generate(body) ==
    IF body.kind = "json" THEN [raw |-> FALSE, n |-> body.n] ELSE Fallback

\* Mutant: an answer without failure modes read as listing one.
failure_modesAtLeastOne(answer) ==
    IF answer.raw \/ answer.n = 0 THEN 1 ELSE answer.n

\* analyze_result.get("failure_modes", []): how many failure modes the
\* answer lists.
failure_modes(answer) == IF answer.raw THEN 0 ELSE answer.n

\* The ANALYZE answer a step has got: none yet, or the answer.
NotAnalyzed == [heard |-> FALSE, raw |-> FALSE, n |-> 0]
Analyzed(answer) == [heard |-> TRUE, raw |-> answer.raw, n |-> answer.n]

\* The candidate has got the answer to its call: the fallback or not.
Heard(c, raw) == [c EXCEPT !.raw = raw]

\* rate_result.get("severity"), .get("occurrence") of the fallback, and
\* .get("severity", severity) of it: the keys are absent.
RateOfFallback == <<Missing, Missing>>

\* Mutant: the fallback read as a verdict of valid.
ValidateOfFallbackValid ==
    [valid |-> TRUE, corr |-> "dict", cs |-> Missing, co |-> Missing]

\* validate_result.get("is_valid", False) and .get("corrected_ratings", {})
\* of the fallback: not valid, nothing corrected.
ValidateOfFallback ==
    [valid |-> FALSE, corr |-> "dict", cs |-> Missing, co |-> Missing]

\* The fallback, where the model may answer with a body that is no JSON.
IfMalformed(S) == IF malformed THEN S ELSE {}

\* ---------------------------------------------- answers of the model call
\* The answers to a VALIDATE call: is_valid, and corrected_ratings as a
\* mapping of two ratings (null or absent where nothing is corrected) or
\* as null.
ValidateAnswers ==
    {[valid |-> v, corr |-> "dict", cs |-> a, co |-> b] :
        v \in BOOLEAN, a \in modelVals \cup {Null},
        b \in modelVals \cup {Null}}
    \cup {[valid |-> FALSE, corr |-> "null", cs |-> Null, co |-> Null]}

\* The calls a step with one candidate issues, in order: ANALYZE, RATE,
\* VALIDATE, the re-issued RATE, VALIDATE again.  The call a candidate
\* waits for:
CallOf(c) == IF c.pc = "validate" /\ c.validates > 1 THEN "again" ELSE c.pc

\* A model that answers by the script raises at the call the script says
\* and answers every other call as the script says; any other model may
\* do either at every call.
Raises(call) == ~scripted \/ script.fail = call
Answers(call) == ~scripted \/ script.fail # call

\* Whether ANALYZE may have listed a failure mode with an empty text or
\* effect (blank), or one with both.
Listed(blank) == ~scripted \/ script.blank = blank

\* The ratings a RATE call may be answered with.
RateAnswers ==
    IF scripted THEN {script.rate} ELSE modelVals \X modelVals

\* The ratings the re-issued RATE call may be answered with.
RerateAnswers ==
    IF scripted THEN {script.rerate}
    ELSE (modelVals \cup {Missing}) \X (modelVals \cup {Missing})

\* The answers the VALIDATE call of candidate c may get.
VerdictAnswers(c) ==
    IF scripted THEN {script[CallOf(c)]} ELSE ValidateAnswers

\* The scripts of a step: the call that raises, if any, the number of
\* failure modes ANALYZE lists and whether their text is empty, and the
\* answers to RATE, VALIDATE, the re-issued RATE and the second VALIDATE.
Calls == {"analyze", "rate", "validate", "rerate", "again"}
Scripts ==
    [fail : Calls \cup {"none"},
     analyze : 0..1,
     blank : BOOLEAN,
     rate : {<<v, v>> : v \in NarrowVals},
     validate : {[valid |-> b, corr |-> "dict", cs |-> v, co |-> v] :
                    b \in BOOLEAN, v \in NarrowVals \cup {Null}}
                \cup {[valid |-> FALSE, corr |-> "null",
                        cs |-> Null, co |-> Null]},
     rerate : {<<v, v>> : v \in NarrowVals \cup {Missing}},
     again : {[valid |-> b, corr |-> "dict", cs |-> Null, co |-> Null] :
                    b \in BOOLEAN}]
NoScript == CHOOSE sc \in Scripts : sc.fail = "none"

\* The scripts that answer the first RATE call with any two values, then
\* agree with the ratings at the first or at the second VALIDATE call and
\* leave them alone: no correction, no rating in the re-issued RATE.
RateScripts ==
    {[fail |-> "none", analyze |-> 1, blank |-> FALSE,
      rate |-> <<a, b>>,
      validate |-> [valid |-> v, corr |-> "dict", cs |-> Null, co |-> Null],
      rerate |-> <<Missing, Missing>>,
      again |-> [valid |-> TRUE, corr |-> "dict", cs |-> Null, co |-> Null]] :
        a \in WideVals, b \in WideVals, v \in BOOLEAN}

\* The answers to a VALIDATE call that the loop tells apart: valid; not
\* valid with, for each rating, a correction that is null, absent, 0 or
\* 2; not valid with corrected_ratings null.
LoopVerdicts ==
    {[valid |-> TRUE, corr |-> "dict", cs |-> Null, co |-> Null],
     [valid |-> FALSE, corr |-> "null", cs |-> Null, co |-> Null]} \cup
    {[valid |-> FALSE, corr |-> "dict", cs |-> a, co |-> b] :
        a \in {Null, Missing, IntV(0), IntV(2)},
        b \in {Null, Missing, IntV(0), IntV(2)}}

\* The scripts that take a candidate into the VALIDATE loop (RATE answers
\* 3 and 3) and through it, the re-issued RATE answering 4 or nothing for
\* each rating.
LoopScripts ==
    {[fail |-> "none", analyze |-> 1, blank |-> FALSE,
      rate |-> <<IntV(DefaultRating), IntV(DefaultRating)>>,
      validate |-> v1, rerate |-> <<a, b>>, again |-> v2] :
        v1 \in LoopVerdicts, v2 \in LoopVerdicts,
        a \in {Missing, IntV(4)}, b \in {Missing, IntV(4)}}

\* Mutant: new_result is handed to the sink and not waited for.
DeliverLater(e, sent) == sent

\* await progress_callback(e): when the await is over the sink has handled
\* the event.
Deliver(e, sent) == sent \cup {e}

\* Mutant: the sink is awaited without looking whether there is one.
EmitUnguarded(given, e, sent) == Deliver(e, sent)

\* if progress_callback: await progress_callback(e).
Emit(given, e, sent) == IF given THEN Deliver(e, sent) ELSE sent

\* ----------------------------------------------------- the candidate task
OpEnded(i) == opPc[i] \in {"returned", "raised"}

\* The locals of a task that ended after its analyze_step did are kept by
\* nobody: its result is never read.
Forget(c) == [NewCand EXCEPT !.pc = c.pc, !.why = c.why]

\* The end of a segment of candidate j of step i, that leaves it as n and
\* found `free` slots in the gate.
CandStep(i, j, n, free) ==
    /\ cand' = [cand EXCEPT
                  ![i][j] = IF n.pc \in EndPcs /\ OpEnded(i) THEN Forget(n)
                            ELSE n]
    /\ candSem' = [candSem EXCEPT ![i] = ExitCandGate(free, n.pc)]
    /\ events' = IF n.pc = "done"
                 THEN Emit(progress_callback[runOf[i]],
                           NewResultEvent(i, j), events)
                 ELSE events
    /\ UNCHANGED <<config, opSem, opPc, opOut, analyzed, runStatus, saved,
                   retryVars, engineVars, sideVars>>

\* asyncio.Semaphore wakes its waiters first-in first-out, and gather
\* starts the tasks in the order of its list: candidate j is served when
\* no earlier candidate of the step still waits.
FirstWaiter(i, j) == \A k \in Fms : k < j => cand[i][k].pc # "wait"

\* The exception of a task is raised in analyze_step on the next turn of
\* the event loop, before the answer of any call still in flight can be
\* handled.
GatherPending(i) ==
    opPc[i] = "gather" /\ \E j \in Fms : cand[i][j].pc = "raised"

\* A segment of process_failure_mode ends with an exception when the model
\* call raises (_generate_with_retry lets through a non-timeout error, or
\* a timeout after the last retry) or when an awaited emission of the
\* segment does (progress_callback is awaited directly): every segment
\* starts with the emission of an intermediate event.
Failures(c) ==
    (IF Raises(CallOf(c)) THEN {Raised(c, "call")} ELSE {}) \cup
    (IF sinkFlaky THEN {Raised(c, "sink")} ELSE {})

\* The ends of a segment, given the ends S it has when nothing raises: a
\* segment that finalizes ends with the awaited emission of new_result,
\* which may raise before the result is returned.
Ends(c, S) ==
    Failures(c) \cup
    (IF Answers(CallOf(c))
     THEN S \cup (IF sinkFlaky /\ (\E n \in S : n.pc = "done")
                  THEN {Raised(c, "notify")} ELSE {})
     ELSE {})

\* async with semaphore ... to the RATE call: a candidate with an empty
\* failure_mode or effect returns None; 'rate started' and 'rate
\* processing' are awaited before the call.
CandStart(i, j) ==
    /\ cand[i][j].pc = "wait"
    /\ CanAcquire(candSem[i])
    /\ FirstWaiter(i, j)
    /\ \E n \in (IF Listed(TRUE) THEN {ReturnedNone(cand[i][j])} ELSE {}) \cup
                (IF Listed(FALSE)
                 THEN {[cand[i][j] EXCEPT !.pc = "rate", !.rates = @ + 1]}
                 ELSE {}) \cup
                (IF sinkFlaky THEN {Raised(cand[i][j], "sink")} ELSE {}) :
         CandStep(i, j, n, Acquire(candSem[i]))

\* The RATE call ends: coercion, 'rate completed', the skip decision, then
\* VALIDATE is issued or the candidate is finalized.
RateReturn(i, j) ==
    /\ cand[i][j].pc = "rate"
    /\ ~GatherPending(i)
    /\ \E n \in Ends(cand[i][j],
                {AfterRate(Heard(cand[i][j], FALSE),
                           include_justifications[runOf[i]], a[1], a[2]) :
                    a \in RateAnswers} \cup
                IfMalformed(
                  {AfterRate(Heard(cand[i][j], TRUE),
                             include_justifications[runOf[i]],
                             RateOfFallback[1], RateOfFallback[2])})) :
         CandStep(i, j, n, candSem[i])

\* The VALIDATE call ends: valid leaves the loop, otherwise CORRECT and
\* either re-RATE or FINALIZE.
ValidateReturn(i, j) ==
    /\ cand[i][j].pc = "validate"
    /\ ~GatherPending(i)
    /\ \E n \in Ends(cand[i][j],
                {AfterValidate(Heard(cand[i][j], FALSE), resp) :
                    resp \in VerdictAnswers(cand[i][j])} \cup
                IfMalformed(
                  {AfterValidate(Heard(cand[i][j], TRUE),
                                 ValidateOfFallback)})) :
         CandStep(i, j, n, candSem[i])

\* The re-issued RATE call ends: back to the head of the loop.
RerateReturn(i, j) ==
    /\ cand[i][j].pc = "rerate"
    /\ ~GatherPending(i)
    /\ \E n \in Ends(cand[i][j],
                {AfterRerate(Heard(cand[i][j], FALSE), a[1], a[2]) :
                    a \in RerateAnswers} \cup
                IfMalformed(
                  {AfterRerate(Heard(cand[i][j], TRUE),
                               RateOfFallback[1], RateOfFallback[2])})) :
         CandStep(i, j, n, candSem[i])

\* -------------------------------------- the step task: process_operation
\* Mutant: process_operation has no handler, the exception leaves it.
Uncaught == {[pc |-> "raised", err |-> FALSE]}

\* How a segment of process_operation ends.  An exception inside its try
\* (of the model call, of an emission awaited in analyze_step, of the
\* emission 'operation completed') is caught: the handler emits the
\* operation's error event and returns []; if that emission raises too,
\* the exception leaves process_operation.
Caught ==
    {[pc |-> "returned", err |-> TRUE]} \cup
    (IF sinkFlaky THEN {[pc |-> "raised", err |-> FALSE]} ELSE {})

\* The end of a segment of step i, that leaves it at pc with the results
\* res (candidate indices), err telling whether the error event was sent.
OpStep(i, pc, res, err, free) ==
    /\ opPc' = [opPc EXCEPT ![i] = pc]
    /\ opOut' = [opOut EXCEPT ![i] = res]
    /\ opSem' = [opSem EXCEPT ![runOf[i]] = ExitOpGate(free, pc)]
    /\ events' = IF err THEN events \cup {OperationErrorEvent(i)} ELSE events
    /\ UNCHANGED <<config, candSem, runStatus, saved, retryVars, engineVars, sideVars>>

\* async with semaphore ... to the ANALYZE call: 'operation started' is
\* awaited outside the try, 'analyze started' and 'analyze processing'
\* inside analyze_step.
OpStart(i) ==
    /\ opPc[i] = "wait"
    /\ CanAcquire(opSem[runOf[i]])
    /\ \A k \in Ops : k < i /\ runOf[k] = runOf[i] => opPc[k] # "wait"
    /\ \E o \in {[pc |-> "analyze", err |-> FALSE]} \cup
               (IF sinkFlaky THEN Caught ELSE {}) :
         OpStep(i, o.pc, <<>>, o.err, Acquire(opSem[runOf[i]]))
    /\ UNCHANGED <<cand, analyzed>>

\* Mutant: no truncation in fast mode.
TruncateNever(detailed, n) == n

\* The failure modes analyze_step goes on with: all of them, the first one
\* in fast mode.
Truncate(detailed, n) == IF ~detailed /\ n > 1 THEN 1 ELSE n

\* The tasks handed to asyncio.gather, one per failure mode.
Tasks(k) ==
    [j \in Fms |-> IF j <= k THEN [NewCand EXCEPT !.pc = "wait"] ELSE NewCand]

\* The bodies an ANALYZE call may be answered with.
AnalyzeBodies ==
    IF scripted THEN {JsonBody(script.analyze)}
    ELSE {JsonBody(n) : n \in 0..maxFm} \cup IfMalformed({MalformedBody})

\* How the segment after the ANALYZE answer h ends: no failure mode
\* returns [], otherwise the tasks are handed to asyncio.gather; the
\* emission 'analyze completed' may raise before either.
AnalyzeOutcomes(h) ==
    {[pc |-> IF failure_modes(h) = 0 THEN "returned" ELSE "gather",
      err |-> FALSE]} \cup
    (IF sinkFlaky THEN Caught ELSE {})

\* The ANALYZE call ends: it raises (no answer), or generate returns what
\* it made of the body.
AnalyzeReturn(i) ==
    /\ opPc[i] = "analyze"
    /\ \E h \in (IF Raises("analyze") THEN {NotAnalyzed} ELSE {}) \cup
                (IF Answers("analyze")
                 THEN {Analyzed(generate(b)) : b \in AnalyzeBodies}
                 ELSE {}) :
         /\ analyzed' = [analyzed EXCEPT ![i] = h]
         /\ \E o \in IF h.heard THEN AnalyzeOutcomes(h) ELSE Caught :
              /\ OpStep(i, o.pc, <<>>, o.err, opSem[runOf[i]])
              /\ cand' = IF o.pc = "gather"
                         THEN [cand EXCEPT ![i] =
                                 Tasks(Truncate(include_justifications[runOf[i]],
                                                failure_modes(h)))]
                         ELSE cand

RECURSIVE Survivors(_, _)

\* Mutant: the results are collected last task first.
SurvivorsLastFirst(cs, j) ==
    IF j > MaxCandidates THEN <<>>
    ELSE Survivors(cs, j + 1) \o (IF cs[j].pc = "done" THEN <<j>> ELSE <<>>)

\* results.extend([r for r in failure_mode_results if r is not None]), as
\* the indices of the candidates, in the order of the tasks.
Survivors(cs, j) ==
    IF j > MaxCandidates THEN <<>>
    ELSE (IF cs[j].pc = "done" THEN <<j>> ELSE <<>>) \o Survivors(cs, j + 1)

\* await asyncio.gather(*tasks), without return_exceptions: the first
\* exception of a task is raised in analyze_step at once and the other
\* tasks go on; without any exception it returns when all tasks have.
GatherRaises(i) == \E j \in Fms : cand[i][j].pc = "raised"
GatherReturns(i) ==
    /\ ~GatherRaises(i)
    /\ \A j \in Fms : cand[i][j].pc \in {"idle", "done", "none"}

\* analyze_step leaves gather, and process_operation ends: 'operation
\* completed' is awaited inside the try.
GatherEnd(i) ==
    /\ opPc[i] = "gather"
    /\ GatherRaises(i) \/ GatherReturns(i)
    /\ \E o \in IF GatherRaises(i) THEN Caught
               ELSE {[pc |-> "returned", err |-> FALSE]} \cup
                    (IF sinkFlaky THEN Caught ELSE {}) :
         OpStep(i, o.pc, IF o.err \/ o.pc = "raised" THEN <<>>
                         ELSE Survivors(cand[i], 1),
                o.err, opSem[runOf[i]])
    /\ cand' = [cand EXCEPT ![i] = [j \in Fms |->
                  IF cand[i][j].pc \in EndPcs THEN Forget(cand[i][j])
                  ELSE cand[i][j]]]
    /\ UNCHANGED analyzed

\* ------------------------------------------- the run: process_analysis
OpsOf(r) == {i \in Ops : opPc[i] # "off" /\ runOf[i] = r}

RECURSIVE Flatten(_, _)
Flatten(r, i) ==
    IF i > NumSteps THEN <<>>
    ELSE (IF i \in OpsOf(r) THEN [k \in 1..Len(opOut[i]) |-> <<i, opOut[i][k]>>]
          ELSE <<>>) \o Flatten(r, i + 1)

\* await asyncio.gather(*tasks) of process_analysis and what follows: an
\* exception of a step task fails the run.  Otherwise 'save started' is
\* sent, the flattened results are saved, the run is committed as
\* completed and 'complete' is sent; an emission that raises takes the run
\* to the handler, which sets it failed: before the save, or after the
\* commit.
RunOutcomes(r) ==
    IF \E i \in OpsOf(r) : opPc[i] = "raised"
    THEN {[status |-> "failed", rows |-> saved[r]]}
    ELSE {[status |-> "completed", rows |-> Flatten(r, 1)]} \cup
         (IF sinkFlaky
          THEN {[status |-> "failed", rows |-> saved[r]],
                [status |-> "failed", rows |-> Flatten(r, 1)]}
          ELSE {})

RunEnd(r) ==
    /\ runStatus[r] = "processing"
    /\ \/ \E i \in OpsOf(r) : opPc[i] = "raised"
       \/ \A i \in OpsOf(r) : opPc[i] = "returned"
    /\ \E o \in RunOutcomes(r) :
         /\ runStatus' = [runStatus EXCEPT ![r] = o.status]
         /\ saved' = [saved EXCEPT ![r] = o.rows]
    /\ UNCHANGED <<config, opSem, opPc, opOut, analyzed, candSem, cand,
                   events, retryVars, engineVars, sideVars>>

\* ------------------------------------------------- _generate_with_retry
\* What generate() raises, by the text of the exception, which is all
\* _generate_with_retry looks at: httpx.TimeoutException becomes "LLM
\* request timed out. Please try again."; httpx.HTTPError becomes "LLM
\* service error: " followed by the text of the transport error, which
\* for a response such as 504 Gateway Timeout holds the word timeout;
\* anything else is raised as it is.
TimedOut == [kind |-> "timeout", text |-> "timed out"]
ServiceError == [kind |-> "service", text |-> "plain"]
ServiceErrorSayingTimeout == [kind |-> "service", text |-> "timeout"]
Unexpected == [kind |-> "other", text |-> "plain"]
Answer == [kind |-> "answer", text |-> "plain"]
GenerateErrors == {TimedOut, ServiceError, ServiceErrorSayingTimeout, Unexpected}

\* is_timeout = "timed out" in message or "timeout" in message.
is_timeout(e) == e.text = "timed out" \/ e.text = "timeout"

\* Mutant: a constant delay.
DelayConstant(base, k) == base

\* delay = base_delay * attempt.
Delay(base, k) == base * k

\* No call of _generate_with_retry under way.
RetryIdle ==
    /\ retries = DefaultRetries
    /\ base_delay = DefaultBaseDelay
    /\ genPc = "idle"
    /\ attempt = 0
    /\ outcomes = <<>>
    /\ delays = <<>>

\* The pipeline, which a call of _generate_with_retry does not touch.
pipelineVars ==
    <<config, opSem, opPc, opOut, analyzed, candSem, cand, events, runStatus,
      saved>>

\* generate() returns: the answer is returned, no further attempt.
GenerateReturns ==
    /\ genPc = "call"
    /\ genPc' = "returned"
    /\ outcomes' = Append(outcomes, Answer)
    /\ UNCHANGED <<retries, base_delay, attempt, delays, pipelineVars,
                   engineVars, sideVars>>

\* generate() raises: except Exception: attempt += 1; a timeout within the
\* retries sleeps base_delay * attempt, anything else is raised again.
GenerateRaises ==
    /\ genPc = "call"
    /\ \E e \in GenerateErrors :
         /\ outcomes' = Append(outcomes, e)
         /\ attempt' = attempt + 1
         /\ IF attempt + 1 <= retries /\ is_timeout(e)
            THEN /\ genPc' = "sleep"
                 /\ delays' = Append(delays, Delay(base_delay, attempt + 1))
            ELSE /\ genPc' = "raised"
                 /\ delays' = delays
    /\ UNCHANGED <<retries, base_delay, pipelineVars, engineVars, sideVars>>

\* await asyncio.sleep(delay) ends: continue, the next generate() is issued.
SleepEnds ==
    /\ genPc = "sleep"
    /\ genPc' = "call"
    /\ UNCHANGED <<retries, base_delay, attempt, outcomes, delays,
                   pipelineVars, engineVars, sideVars>>

NextRetry == GenerateReturns \/ GenerateRaises \/ SleepEnds

\* ------------------------------------------------------------- RiskMatrix
\* RiskMatrix.calculate_rpn: the guard raises ValueError, otherwise the
\* product is returned.
CalculateRpn ==
    /\ rpnOut.st = "not called"
    /\ rpnOut' = IF RatingsAccepted(ratingS, ratingO)
                 THEN Returned(calculate_rpn(ratingS, ratingO))
                 ELSE ValueError(0)
    /\ UNCHANGED <<ratingS, ratingO, riskOut, actionOut, pipelineVars,
                   retryVars, sideVars>>

\* RiskMatrix.get_risk_level: the same guard, otherwise the cell of MATRIX.
GetRiskLevel ==
    /\ riskOut.st = "not called"
    /\ riskOut' = IF RatingsAccepted(ratingS, ratingO)
                  THEN Returned(get_risk_level(ratingS, ratingO))
                  ELSE ValueError("")
    /\ UNCHANGED <<ratingS, ratingO, rpnOut, actionOut, pipelineVars,
                   retryVars, sideVars>>

\* RiskMatrix.get_action_required, called with the risk level returned.
GetActionRequired ==
    /\ riskOut.st = "returned"
    /\ actionOut.st = "not called"
    /\ actionOut' = Returned(get_action_required(riskOut.v))
    /\ UNCHANGED <<ratingS, ratingO, rpnOut, riskOut, pipelineVars,
                   retryVars, sideVars>>

NextEngine == CalculateRpn \/ GetRiskLevel \/ GetActionRequired

\* ------------------------------------------- FINALIZE: subprocess default
\* A text is the sequence of its characters.  A field of the step is
\* absent, None, a text, or (steps) a list of texts.
AbsentV == [t |-> "absent", s |-> <<>>]
NoneV == [t |-> "none", s |-> <<>>]
StrV(s) == [t |-> "str", s |-> s]
AbsentList == [t |-> "absent", l |-> <<>>]
ListV(l) == [t |-> "list", l |-> l]

\* dict.get(key, default).
GetOr(field, default) == IF field.t = "absent" THEN default ELSE field

\* Python's truth value of None or a text, and of a list.
NotEmpty(x) == x.t = "str" /\ x.s # <<>>
NotEmptyList(x) == x.t = "list" /\ x.l # <<>>

Whitespace == {" ", "\n", "\t"}

\* details.split('\n')[0]: the text before the first line break.
FirstLine(s) ==
    LET breaks == {k \in 1..Len(s) : s[k] = "\n"}
    IN  IF breaks = {} THEN s
        ELSE SubSeq(s, 1, (CHOOSE k \in breaks : \A b \in breaks : k <= b) - 1)

\* str.strip(): the text without its leading and trailing whitespace.
Strip(s) ==
    LET solid == {k \in 1..Len(s) : s[k] \notin Whitespace}
    IN  IF solid = {} THEN <<>>
        ELSE SubSeq(s, CHOOSE k \in solid : \A b \in solid : k <= b,
                       CHOOSE k \in solid : \A b \in solid : k >= b)

\* Mutant: a first line of exactly the limit is taken too.
ShortEnoughInclusive(first_line) == Len(first_line) <= FirstLineLimit

\* len(first_line) < 100.
ShortEnough(first_line) == Len(first_line) < FirstLineLimit

\* subprocess_name = process_step.get("subprocess"); if not subprocess_name:
\* the first of steps if steps is not empty, else the stripped first line
\* of details if details is not empty and that line is not empty and short.
SubprocessDefault(step) ==
    LET own == GetOr(step.subprocess, NoneV)
        steps == GetOr(step.steps, ListV(<<>>))
        details == GetOr(step.details, StrV(<<>>))
        first_line == Strip(FirstLine(details.s))
    IN  IF NotEmpty(own) THEN own
        ELSE IF NotEmptyList(steps) THEN StrV(steps.l[1])
        ELSE IF /\ NotEmpty(details)
                /\ first_line # <<>>
                /\ ShortEnough(first_line)
             THEN StrV(first_line)
        ELSE own

\* "subprocess": subprocess_name or "".
OrEmpty(x) == IF NotEmpty(x) THEN x.s ELSE <<>>

\* ------------------------------------ start_analysis and process_analysis
\* One analysis id.  taskPc of a request: "none" it scheduled nothing,
\* "scheduled" its process_analysis is a background task not yet begun,
\* "parse" the run has committed 'processing' and parses the PDF, "steps"
\* it awaits the gather over its operations, "save" it awaits the 'save
\* started' emission, "notify" it has committed a final status and awaits
\* the emission that reports it, "handler" an exception reached the outer
\* except, "returned" the run is over.
Requests == 1..MaxRequests
NoRunFor == {"none", "returned"}

\* No request made for the analysis, which the upload left 'pending'.
JobIdle ==
    /\ status = "pending"
    /\ replies = <<>>
    /\ taskPc = [k \in Requests |-> "none"]
    /\ all_results = [k \in Requests |-> 0]
    /\ inserted = <<>>

\* start_analysis: 'processing' and 'completed' are answered and nothing is
\* scheduled; any other status adds process_analysis to the background
\* tasks, which run once the response is sent.
StartAnalysis ==
    /\ Len(replies) < MaxRequests
    /\ IF status = "processing"
       THEN /\ replies' = Append(replies, "Analysis already in progress")
            /\ taskPc' = taskPc
       ELSE IF status = "completed"
       THEN /\ replies' = Append(replies, "Analysis already completed")
            /\ taskPc' = taskPc
       ELSE /\ replies' = Append(replies, "Analysis started")
            /\ taskPc' = [taskPc EXCEPT ![Len(replies) + 1] = "scheduled"]
    /\ UNCHANGED <<status, all_results, inserted, fieldVars, registryVars,
                   pipelineVars, retryVars, engineVars>>

\* The background task begins: analysis.status = "processing"; db.commit().
BeginRun(k) ==
    /\ taskPc[k] = "scheduled"
    /\ status' = "processing"
    /\ taskPc' = [taskPc EXCEPT ![k] = "parse"]
    /\ UNCHANGED <<replies, all_results, inserted, fieldVars, registryVars,
                   pipelineVars, retryVars, engineVars>>

\* From the commit of 'processing' to the gather: an emission or parse_pdf
\* raises; or the PDF has no operations: 'failed' is committed and the
\* error event awaited; or the step tasks are created and awaited.
ParseEnds(k) ==
    /\ taskPc[k] = "parse"
    /\ \E parsed \in {"raised", "no operations", "operations"} :
         /\ taskPc' = [taskPc EXCEPT ![k] =
                          IF parsed = "raised" THEN "handler"
                          ELSE IF parsed = "no operations" THEN "notify"
                          ELSE "steps"]
         /\ status' = IF parsed = "no operations" THEN "failed" ELSE status
    /\ UNCHANGED <<replies, all_results, inserted, fieldVars, registryVars,
                   pipelineVars, retryVars, engineVars>>

\* await asyncio.gather(*tasks): an 'operation started' emission raises, or
\* every process_operation returns its results, none when it caught an
\* error; the lists are flattened.
StepsEnd(k) ==
    /\ taskPc[k] = "steps"
    /\ \/ /\ taskPc' = [taskPc EXCEPT ![k] = "handler"]
          /\ all_results' = all_results
       \/ \E n \in 0..MaxResults :
            /\ taskPc' = [taskPc EXCEPT ![k] = "save"]
            /\ all_results' = [all_results EXCEPT ![k] = n]
    /\ UNCHANGED <<status, replies, inserted, fieldVars, registryVars,
                   pipelineVars, retryVars, engineVars>>

\* The 'save started' emission raises; or: if all_results: bulk insert;
\* analysis.status = "completed"; db.commit().
SaveResults(k) ==
    /\ taskPc[k] = "save"
    /\ \/ /\ taskPc' = [taskPc EXCEPT ![k] = "handler"]
          /\ UNCHANGED <<status, inserted>>
       \/ /\ taskPc' = [taskPc EXCEPT ![k] = "notify"]
          /\ inserted' = IF all_results[k] > 0
                         THEN Append(inserted, <<k, all_results[k]>>)
                         ELSE inserted
          /\ status' = "completed"
    /\ UNCHANGED <<replies, all_results, fieldVars, registryVars,
                   pipelineVars, retryVars, engineVars>>

\* The emission that reports the committed status returns, and the run
\* with it, or raises.
NotifyEnds(k) ==
    /\ taskPc[k] = "notify"
    /\ \E next \in {"returned", "handler"} :
         taskPc' = [taskPc EXCEPT ![k] = next]
    /\ UNCHANGED <<status, replies, all_results, inserted, fieldVars,
                   registryVars, pipelineVars, retryVars, engineVars>>

\* Mutant: the outer except reports the error and leaves the status.
HandleErrorSilently(k) ==
    /\ taskPc[k] = "handler"
    /\ taskPc' = [taskPc EXCEPT ![k] = "returned"]
    /\ UNCHANGED <<status, replies, all_results, inserted, fieldVars,
                   registryVars, pipelineVars, retryVars, engineVars>>

\* except Exception: the error event is sent, its failure swallowed;
\* analysis.status = "failed"; db.commit().
HandleError(k) ==
    /\ taskPc[k] = "handler"
    /\ status' = "failed"
    /\ taskPc' = [taskPc EXCEPT ![k] = "returned"]
    /\ UNCHANGED <<replies, all_results, inserted, fieldVars, registryVars,
                   pipelineVars, retryVars, engineVars>>

RunStep(k) ==
    \/ BeginRun(k)
    \/ ParseEnds(k)
    \/ StepsEnd(k)
    \/ SaveResults(k)
    \/ NotifyEnds(k)
    \/ HandleError(k)

NextJob == StartAnalysis \/ \E k \in Requests : RunStep(k)

\* ------------------------------- ConnectionManager and websocket_endpoint
\* wsPc of a connection: "new" not opened, "accept" inside manager.connect
\* awaiting websocket.accept(), "hello" registered and sending 'connected',
\* "receive" in the loop awaiting receive_text for up to 30 s, "echo" and
\* "ping" awaiting that send, "returned" websocket_endpoint is over.
Connections == 1..MaxConnections
\* What the listeners and the registry do not touch.
besideRegistry ==
    <<pipelineVars, retryVars, engineVars, fieldVars, jobVars>>

\* The registry as a dict: a function whose domain is the ids it has keys
\* for.
RegisteredIn(registry, ws) ==
    /\ analysisOf[ws] \in DOMAIN registry
    /\ ws \in registry[analysisOf[ws]]
Registered(ws) == RegisteredIn(active_connections, ws)

\* ConnectionManager.connect after the accept: the set is created if the
\* id has none, and the connection added.
connect(registry, ws, id) ==
    [a \in DOMAIN registry \cup {id} |->
        IF a # id THEN registry[a]
        ELSE IF id \in DOMAIN registry THEN registry[id] \cup {ws}
        ELSE {ws}]

\* ConnectionManager.disconnect: discard, and del the key of an empty set.
disconnect(registry, ws, id) ==
    IF id \notin DOMAIN registry THEN registry
    ELSE IF registry[id] \ {ws} = {}
         THEN [a \in DOMAIN registry \ {id} |-> registry[a]]
    ELSE [registry EXCEPT ![id] = @ \ {ws}]

\* for conn in disconnected: self.disconnect(conn, analysis_id).
RECURSIVE disconnectAll(_, _, _)
disconnectAll(registry, conns, id) ==
    IF conns = {} THEN registry
    ELSE LET ws == CHOOSE c \in conns : TRUE
         IN  disconnectAll(disconnect(registry, ws, id), conns \ {ws}, id)

\* No send_message call under way.  A call under way iterates the set
\* object it found under id: size is what the set held when the loop began,
\* done the connections sent to, disconnected those whose send failed, live
\* whether the object is still the one the registry holds.
NotSending ==
    [pc |-> "idle", id |-> 0, size |-> 0, done |-> {}, disconnected |-> {},
     live |-> FALSE]

\* What the set object of the call under way holds now.
Iterated ==
    IF sending.live THEN active_connections[sending.id] ELSE {}

\* The call under way after the registry became registry2: a del of the
\* key leaves the loop with an object that is empty and no longer held.
Detach(registry2) ==
    IF sending.pc = "loop" /\ sending.id \notin DOMAIN registry2
    THEN [sending EXCEPT !.live = FALSE]
    ELSE sending

\* No connection opened.
Closed ==
    /\ active_connections = <<>>
    /\ wsPc = [ws \in Connections |-> "new"]
    /\ clientOpen = [ws \in Connections |-> TRUE]
    /\ sending = NotSending
RegistryIdle == Closed /\ analysisOf = [ws \in Connections |-> 1]

\* A client opens /analysis/{analysis_id}: await manager.connect(...).
Open(ws) ==
    /\ wsPc[ws] = "new"
    /\ wsPc' = [wsPc EXCEPT ![ws] = "accept"]
    /\ UNCHANGED <<analysisOf, active_connections, clientOpen, sending,
                   besideRegistry>>

\* The client goes away: from now on a send to it raises, and so does a
\* receive.
ClientLeaves(ws) ==
    /\ wsPc[ws] \notin {"new", "returned"}
    /\ clientOpen[ws]
    /\ clientOpen' = [clientOpen EXCEPT ![ws] = FALSE]
    /\ UNCHANGED <<analysisOf, active_connections, wsPc, sending,
                   besideRegistry>>

\* websocket.accept() ends: it raises and the endpoint with it, connect
\* being outside the try; or the connection is registered and 'connected'
\* sent.
AcceptEnds(ws) ==
    /\ wsPc[ws] = "accept"
    /\ IF clientOpen[ws]
       THEN /\ active_connections' =
                 connect(active_connections, ws, analysisOf[ws])
            /\ wsPc' = [wsPc EXCEPT ![ws] = "hello"]
       ELSE /\ active_connections' = active_connections
            /\ wsPc' = [wsPc EXCEPT ![ws] = "returned"]
    /\ UNCHANGED <<analysisOf, clientOpen, sending, besideRegistry>>

\* The send of 'connected' ends: it raises into the outer handlers, which
\* call manager.disconnect, or the loop is entered.
HelloEnds(ws) ==
    /\ wsPc[ws] = "hello"
    /\ IF clientOpen[ws]
       THEN /\ wsPc' = [wsPc EXCEPT ![ws] = "receive"]
            /\ UNCHANGED <<active_connections, sending>>
       ELSE /\ wsPc' = [wsPc EXCEPT ![ws] = "returned"]
            /\ active_connections' =
                 disconnect(active_connections, ws, analysisOf[ws])
            /\ sending' =
                 Detach(disconnect(active_connections, ws, analysisOf[ws]))
    /\ UNCHANGED <<analysisOf, clientOpen, besideRegistry>>

\* wait_for(receive_text(), 30) ends: a text came and is echoed; the
\* time ran out and a ping is sent; or it raised, WebSocketDisconnect or
\* anything else: break, and the function returns.
ReceiveEnds(ws) ==
    /\ wsPc[ws] = "receive"
    /\ IF clientOpen[ws]
       THEN \E next \in {"echo", "ping"} : wsPc' = [wsPc EXCEPT ![ws] = next]
       ELSE wsPc' = [wsPc EXCEPT ![ws] = "returned"]
    /\ UNCHANGED <<analysisOf, active_connections, clientOpen, sending,
                   besideRegistry>>

\* The send of the echo or of the ping ends: the loop goes on, or the send
\* raised inside the loop's try: break, and the function returns.
LoopSendEnds(ws) ==
    /\ wsPc[ws] \in {"echo", "ping"}
    /\ wsPc' = [wsPc EXCEPT ![ws] =
                   IF clientOpen[ws] THEN "receive" ELSE "returned"]
    /\ UNCHANGED <<analysisOf, active_connections, clientOpen, sending,
                   besideRegistry>>

\* send_message(id, message) for an id with a key: the loop over its set
\* begins.
SendMessage(id) ==
    /\ sending.pc = "idle"
    /\ id \in DOMAIN active_connections
    /\ sending' = [pc |-> "loop", id |-> id,
                   size |-> Cardinality(active_connections[id]),
                   done |-> {}, disconnected |-> {}, live |-> TRUE]
    /\ UNCHANGED <<analysisOf, active_connections, wsPc, clientOpen,
                   besideRegistry>>

\* The loop takes the next connection and awaits connection.send_json: a
\* send that raises adds the connection to disconnected.
SendOne ==
    /\ sending.pc = "loop"
    /\ Cardinality(Iterated) = sending.size
    /\ \E ws \in Iterated \ sending.done :
         sending' = [sending EXCEPT
                       !.done = @ \cup {ws},
                       !.disconnected =
                           IF clientOpen[ws] THEN @ ELSE @ \cup {ws}]
    /\ UNCHANGED <<analysisOf, active_connections, wsPc, clientOpen,
                   besideRegistry>>

\* The loop asks for the next connection of a set whose size changed
\* during an await: RuntimeError leaves send_message.
SendRaises ==
    /\ sending.pc = "loop"
    /\ Cardinality(Iterated) # sending.size
    /\ sending' = NotSending
    /\ UNCHANGED <<analysisOf, active_connections, wsPc, clientOpen,
                   besideRegistry>>

\* The loop is over: the connections whose send failed are disconnected.
SendReturns ==
    /\ sending.pc = "loop"
    /\ Cardinality(Iterated) = sending.size
    /\ Iterated \ sending.done = {}
    /\ active_connections' =
         disconnectAll(active_connections, sending.disconnected, sending.id)
    /\ sending' = NotSending
    /\ UNCHANGED <<analysisOf, wsPc, clientOpen, besideRegistry>>

NextRegistry ==
    \/ \E ws \in Connections : Open(ws)
    \/ \E ws \in Connections : ClientLeaves(ws)
    \/ \E ws \in Connections : AcceptEnds(ws)
    \/ \E ws \in Connections : HelloEnds(ws)
    \/ \E ws \in Connections : ReceiveEnds(ws)
    \/ \E ws \in Connections : LoopSendEnds(ws)
    \/ \E id \in Runs : SendMessage(id)
    \/ SendOne
    \/ SendRaises
    \/ SendReturns

\* No result record being built.
FieldIdle ==
    /\ process_step =
         [subprocess |-> AbsentV, steps |-> AbsentList, details |-> AbsentV]
    /\ subprocess_name = NotCalled(<<>>)

SideIdle == FieldIdle /\ JobIdle /\ RegistryIdle

\* FINALIZE builds the result record of a candidate of process_step.
FinalizeSubprocess ==
    /\ subprocess_name.st = "not called"
    /\ subprocess_name' = Returned(OrEmpty(SubprocessDefault(process_step)))
    /\ UNCHANGED <<process_step, jobVars, registryVars, pipelineVars,
                   retryVars, engineVars>>

NextField == FinalizeSubprocess

\* ---------------------------------------------------------- specifications
\* The state once process_analysis has created its step tasks, for a given
\* assignment of steps to runs.
StartWith(assign, n, m, vals, bad, sinks, scripts) ==
    /\ runOf = assign
    /\ nOps = n
    /\ maxFm = m
    /\ modelVals = vals
    /\ malformed = bad
    /\ progress_callback = sinks
    /\ scripted = (scripts # {})
    /\ script \in IF scripts = {} THEN {NoScript} ELSE scripts
    /\ sinkFlaky \in BOOLEAN
    /\ include_justifications \in [Runs -> BOOLEAN]
    /\ \A r \in Runs :
         (\A i \in 1..n : assign[i] # r) => ~include_justifications[r]
    /\ opSem = [r \in Runs |-> OperationConcurrency]
    /\ opPc = [i \in Ops |-> IF i <= n THEN "wait" ELSE "off"]
    /\ opOut = [i \in Ops |-> <<>>]
    /\ analyzed = [i \in Ops |-> NotAnalyzed]
    /\ candSem = [i \in Ops |-> failure_mode_concurrency]
    /\ cand = [i \in Ops |-> [j \in Fms |-> NewCand]]
    /\ events = {}
    /\ runStatus = [r \in Runs |->
                      IF \E i \in 1..n : assign[i] = r THEN "processing"
                      ELSE "none"]
    /\ saved = [r \in Runs |-> <<>>]

\* process_analysis hands its send_progress to every analyze_step, and the
\* model answers as it likes.
Start(assign, n, m, vals, bad) ==
    StartWith(assign, n, m, vals, bad, [r \in Runs |-> TRUE], {})

Next ==
    \/ \E i \in Ops : OpStart(i)
    \/ \E i \in Ops : AnalyzeReturn(i)
    \/ \E i \in Ops : GatherEnd(i)
    \/ \E i \in Ops, j \in Fms : CandStart(i, j)
    \/ \E i \in Ops, j \in Fms : RateReturn(i, j)
    \/ \E i \in Ops, j \in Fms : ValidateReturn(i, j)
    \/ \E i \in Ops, j \in Fms : RerateReturn(i, j)
    \/ \E r \in Runs : RunEnd(r)

\* The runs the bounds allow: n steps, the model listing up to m failure
\* modes for each.
Shapes ==
    {sh \in (1..NumSteps) \X (1..MaxCandidates) : sh[1] * sh[2] <= MaxTasks}

\* One run of process_analysis.
Init ==
    /\ \E sh \in Shapes : Start([i \in Ops |-> 1], sh[1], sh[2], NarrowVals, FALSE)
    /\ RetryIdle
    /\ EngineIdle
    /\ SideIdle
Spec == Init /\ [][Next]_vars

\* One run of process_analysis over two steps with one candidate each, or
\* over one step with two candidates, on an event loop that runs every
\* task that is ready, with model calls that all return or raise in the
\* end: a step of the run that stays possible is taken.
InitFair ==
    /\ \E sh \in {<<2, 1>>, <<1, 2>>} :
         Start([i \in Ops |-> 1], sh[1], sh[2], NarrowVals, FALSE)
    /\ RetryIdle
    /\ EngineIdle
    /\ SideIdle
Fairness == WF_vars(Next)
SpecFair == InitFair /\ [][Next]_vars /\ Fairness

\* Several runs of process_analysis at once, one step each.
InitRuns ==
    /\ \E sh \in Shapes : Start([i \in Ops |-> i], sh[1], sh[2], NarrowVals, FALSE)
    /\ RetryIdle
    /\ EngineIdle
    /\ SideIdle
SpecRuns == InitRuns /\ [][Next]_vars

\* One step with one candidate, the model answering any rating, or with
\* a body that is no JSON.
InitCand ==
    /\ Start([i \in Ops |-> 1], 1, 1, WideVals, TRUE)
    /\ RetryIdle
    /\ EngineIdle
    /\ SideIdle
SpecCand == InitCand /\ [][Next]_vars

\* One run over two steps with one candidate each, the model answering 3,
\* a rating out of range, or with a body that is no JSON.
InitBodies ==
    /\ Start([i \in Ops |-> 1], 2, 1, NarrowVals, TRUE)
    /\ RetryIdle
    /\ EngineIdle
    /\ SideIdle
SpecBodies == InitBodies /\ [][Next]_vars

\* Two runs of one step each over the same operation, the first with a
\* sink that never raises, the second with none, the model answering the
\* calls of both by the same script.
InitSink ==
    /\ StartWith([i \in Ops |-> i], 2, 1, NarrowVals, FALSE,
                 [r \in Runs |-> r = 1], Scripts)
    /\ ~sinkFlaky
    /\ include_justifications[1] = include_justifications[2]
    /\ RetryIdle
    /\ EngineIdle
    /\ SideIdle
SpecSink == InitSink /\ [][Next]_vars

\* RiskMatrix called with any two integer ratings, in range or not, with no
\* run of the pipeline under way.
InitEngine ==
    /\ Start([i \in Ops |-> 1], 0, 1, NarrowVals, FALSE)
    /\ ~sinkFlaky
    /\ RetryIdle
    /\ SideIdle
    /\ ratingS \in IntVals
    /\ ratingO \in IntVals
    /\ rpnOut = NotCalled(0)
    /\ riskOut = NotCalled("")
    /\ actionOut = NotCalled("")
SpecEngine == InitEngine /\ [][NextEngine]_vars

\* One step with one candidate whose first RATE call is answered with any
\* two values, every call answering and the sink never raising.
InitRate ==
    /\ StartWith([i \in Ops |-> 1], 1, 1, WideVals, FALSE,
                 [r \in Runs |-> TRUE], RateScripts)
    /\ ~sinkFlaky
    /\ RetryIdle
    /\ EngineIdle
    /\ SideIdle
SpecRate == InitRate /\ [][Next]_vars

\* One step in detailed mode with one candidate that enters the VALIDATE
\* loop, every call answering and the sink never raising.
InitLoop ==
    /\ StartWith([i \in Ops |-> 1], 1, 1, NarrowVals, FALSE,
                 [r \in Runs |-> TRUE], LoopScripts)
    /\ ~sinkFlaky
    /\ include_justifications[1]
    /\ RetryIdle
    /\ EngineIdle
    /\ SideIdle
SpecLoop == InitLoop /\ [][Next]_vars

\* One call of _generate_with_retry, for any retries and base_delay, with
\* no run of the pipeline under way.
InitRetry ==
    /\ Start([i \in Ops |-> 1], 0, 1, NarrowVals, FALSE)
    /\ ~sinkFlaky
    /\ retries \in 0..MaxRetries
    /\ base_delay \in 1..MaxBaseDelay
    /\ genPc = "call"
    /\ attempt = 0
    /\ outcomes = <<>>
    /\ delays = <<>>
    /\ EngineIdle
    /\ SideIdle
SpecRetry ==
    /\ InitRetry
    /\ [][NextRetry]_vars

\* One result record built for any step: each of subprocess, steps and
\* details absent, empty or given, the first line of details empty, short,
\* one character below the limit or at it, with and without whitespace
\* around it and lines after it.
Line(k) == [x \in 1..k |-> "a"]
DetailsTexts ==
    {lead \o Line(k) \o rest :
        lead \in {<<>>, <<" ">>},
        k \in {0, 1, FirstLineLimit - 1, FirstLineLimit},
        rest \in {<<>>, <<" ">>, <<"\n", "a">>}}
ProcessSteps ==
    [subprocess : {AbsentV, NoneV, StrV(<<>>), StrV(<<"s">>)},
     steps : {AbsentList, ListV(<<>>), ListV(<< <<"b">> >>),
              ListV(<< <<>>, <<"c">> >>)},
     details : {AbsentV, NoneV} \cup {StrV(d) : d \in DetailsTexts}]
InitField ==
    /\ Start([i \in Ops |-> 1], 0, 1, NarrowVals, FALSE)
    /\ ~sinkFlaky
    /\ RetryIdle
    /\ EngineIdle
    /\ process_step \in ProcessSteps
    /\ subprocess_name = NotCalled(<<>>)
    /\ JobIdle
    /\ RegistryIdle
SpecField == InitField /\ [][NextField]_vars

\* Up to MaxRequests requests to start one uploaded analysis, with no run
\* of the pipeline modelled beneath: the event loop runs every background
\* task that is ready, and every emission and gather returns or raises in
\* the end.
InitJob ==
    /\ Start([i \in Ops |-> 1], 0, 1, NarrowVals, FALSE)
    /\ ~sinkFlaky
    /\ RetryIdle
    /\ EngineIdle
    /\ SideIdle
SpecJob ==
    /\ InitJob
    /\ [][NextJob]_vars
    /\ WF_vars(\E k \in Requests : RunStep(k))

\* Up to MaxConnections clients, each listening to one analysis, and the
\* send_message calls of the analyses, with no run of the pipeline
\* modelled beneath.
InitRegistry ==
    /\ Start([i \in Ops |-> 1], 0, 1, NarrowVals, FALSE)
    /\ ~sinkFlaky
    /\ RetryIdle
    /\ EngineIdle
    /\ FieldIdle
    /\ JobIdle
    /\ Closed
    /\ analysisOf \in [Connections -> Runs]
SpecRegistry == InitRegistry /\ [][NextRegistry]_vars

\* ------------------------------------------------------------- properties
CandIds == Ops \X Fms
Detailed(i) == include_justifications[runOf[i]]

\* The model calls in flight on behalf of run r: the ANALYZE calls of its
\* steps and the RATE, VALIDATE and re-RATE calls of their candidates.
Outstanding(r) ==
    Cardinality({i \in OpsOf(r) : opPc[i] = "analyze"})
    + Cardinality({id \in CandIds :
                     id[1] \in OpsOf(r) /\ cand[id[1]][id[2]].pc \in CallPcs})

RECURSIVE SumOutstanding(_)
SumOutstanding(r) ==
    IF r > NumSteps THEN 0 ELSE Outstanding(r) + SumOutstanding(r + 1)

\* C1: within one run of process_analysis over N steps with M candidates
\* each, the model calls in flight (ANALYZE, RATE, VALIDATE, re-RATE) never
\* number more than the gate capacity.  Stated for the runs whose sink
\* never raises, where only model calls can fail.
C1_RunWithinCapacity ==
    ~sinkFlaky => \A r \in Runs : Outstanding(r) <= failure_mode_concurrency

\* C2: with analyze_step running for several steps at once, here one step
\* in each of several runs, the model calls in flight over all of them,
\* the ANALYZE calls included, never number more than the gate capacity.
C2_AllWithinCapacity ==
    SumOutstanding(1) <= failure_mode_concurrency

\* C3: every slot taken by a candidate task or a step task is given back
\* on every exit path: once all tasks of a step have ended its gate has all
\* its slots free, and once all step tasks of a run have ended so has the
\* run's gate.
CandsEnded(i) == \A j \in Fms : cand[i][j].pc \in EndPcs \cup {"idle"}
C3_SlotsReturned ==
    /\ \A i \in Ops :
         OpEnded(i) /\ CandsEnded(i) => candSem[i] = failure_mode_concurrency
    /\ \A r \in Runs :
         (\A i \in OpsOf(r) : OpEnded(i)) => opSem[r] = OperationConcurrency

\* C3, witness: a run all of whose tasks have ended and all of whose slots
\* are free, one candidate ended by a model call that raised, one by the
\* sink that raised, one by the early return and one with a result.
C3_Witness ==
    /\ \A i \in OpsOf(1) : OpEnded(i) /\ CandsEnded(i)
    /\ \A i \in OpsOf(1) : candSem[i] = failure_mode_concurrency
    /\ opSem[1] = OperationConcurrency
    /\ \E a \in CandIds, b \in CandIds, c \in CandIds, d \in CandIds :
         /\ cand[a[1]][a[2]].pc = "raised" /\ cand[a[1]][a[2]].why = "call"
         /\ cand[b[1]][b[2]].pc = "raised" /\ cand[b[1]][b[2]].why = "sink"
         /\ cand[c[1]][c[2]].pc = "none"
         /\ cand[d[1]][d[2]].pc = "done"

\* C4: when the RATE or VALIDATE call of one candidate raises and nothing
\* else of the step fails (the sink never raises), analyze_step does not
\* raise, so process_operation catches nothing and reports no operation
\* error, and the sequence it returns holds the result of every sibling
\* that was finalized.
InSeq(x, sq) == \E k \in 1..Len(sq) : sq[k] = x
CallRaised(i) ==
    /\ \E j \in Fms : cand[i][j].pc = "raised"
    /\ \A j \in Fms : cand[i][j].pc = "raised" => cand[i][j].why = "call"
C4_SiblingsReturned ==
    \A i \in Ops :
        ~sinkFlaky /\ OpEnded(i) /\ CallRaised(i) =>
            /\ opPc[i] = "returned"
            /\ OperationErrorEvent(i) \notin events
            /\ \A k \in Fms : cand[i][k].pc = "done" => InSeq(k, opOut[i])

\* C5: once analyze_step has ended, every candidate dropped because its
\* RATE or VALIDATE call raised has an error event of its own in the sink
\* (stated for the runs whose sink never raises).
C5_ErrorEventPerDrop ==
    \A i \in Ops, j \in Fms :
        /\ ~sinkFlaky /\ OpEnded(i)
        /\ cand[i][j].pc = "raised" /\ cand[i][j].why = "call"
        => \E e \in events : e.status = "error" /\ e.op = i /\ e.fm = j

\* C6: after the coercion of the first RATE answer a candidate's severity
\* and occurrence are integers in 1..5, whatever CORRECT and re-RATE store.
\* A candidate is past its RATE answer when its first RATE call has been
\* answered and its ratings are still held (the step has not yet
\* collected and dropped its task).
PastRate(i, j) ==
    cand[i][j].pc \in {"validate", "rerate", "done"} /\ cand[i][j].rates >= 1
C6_RatingsInRange ==
    \A i \in Ops, j \in Fms :
        PastRate(i, j) =>
            InRange(cand[i][j].severity) /\ InRange(cand[i][j].occurrence)

\* C7: every result satisfies rpn = severity x occurrence, risk_level =
\* get_risk_level(severity, occurrence) and action_required =
\* get_action_required(risk_level), for the severity and occurrence stored
\* in the same result.
ResultConsistent(res) ==
    /\ InRange(res.severity) /\ InRange(res.occurrence)
    /\ res.rpn = res.severity.v * res.occurrence.v
    /\ res.risk_level = get_risk_level(res.severity, res.occurrence)
    /\ res.action_required = get_action_required(res.risk_level)
C7_ResultConsistent ==
    \A i \in Ops, j \in Fms :
        cand[i][j].result # <<>> =>
            /\ ResultConsistent(cand[i][j].result[1])
            /\ cand[i][j].result[1].severity = cand[i][j].severity
            /\ cand[i][j].result[1].occurrence = cand[i][j].occurrence

\* C7, witness: a result built from corrected ratings whose risk level
\* depends on which rating is which (severity 4, occurrence 1: medium).
C7_Witness ==
    \E i \in Ops, j \in Fms :
        /\ cand[i][j].result # <<>>
        /\ cand[i][j].retry_count > 0
        /\ cand[i][j].result[1].severity = IntV(4)
        /\ cand[i][j].result[1].occurrence = IntV(1)
        /\ cand[i][j].result[1].risk_level = "medium"

\* C8: for every finalized candidate retry_count is in 0..max_retries and
\* the confidence, in tenths, is 10 - 2 x retry_count: one of 10, 8, 6;
\* a candidate that skipped validation has confidence 10.
C8_Confidence ==
    \A i \in Ops, j \in Fms :
        cand[i][j].result # <<>> =>
            /\ cand[i][j].retry_count \in 0..max_retries
            /\ cand[i][j].result[1].confidence
                 = 10 - 2 * cand[i][j].retry_count
            /\ cand[i][j].result[1].confidence \in {10, 8, 6}
            /\ (cand[i][j].validates = 0 =>
                  cand[i][j].result[1].confidence = 10)

\* C8, witness: a candidate finalized after two corrections, confidence 6.
C8_Witness ==
    \E i \in Ops, j \in Fms :
        /\ cand[i][j].result # <<>>
        /\ cand[i][j].retry_count = 2
        /\ cand[i][j].result[1].confidence = 6

\* C9: in fast mode, or with a provisional RPN below 9, a candidate goes
\* from RATE straight to FINALIZE: past its RATE answer it is finalized,
\* with no VALIDATE call, no re-RATE call and retry_count 0.
C9_SkipGoesToFinalize ==
    \A i \in Ops, j \in Fms :
        /\ PastRate(i, j)
        /\ ~Detailed(i) \/ cand[i][j].initial_rpn < 9
        => /\ cand[i][j].pc = "done"
           /\ cand[i][j].validates = 0
           /\ cand[i][j].rates = 1
           /\ cand[i][j].retry_count = 0

\* C9, witness: severity 3, occurrence 2 in detailed mode, finalized
\* without a VALIDATE call.
C9_Witness ==
    \E i \in Ops, j \in Fms :
        /\ Detailed(i)
        /\ cand[i][j].pc = "done"
        /\ cand[i][j].severity = IntV(3) /\ cand[i][j].occurrence = IntV(2)
        /\ cand[i][j].initial_rpn = 6
        /\ cand[i][j].validates = 0

\* C10: in detailed mode a candidate whose provisional RPN is 9 or more is
\* never finalized without a VALIDATE call issued for it before.
C10_ValidatedBeforeFinalize ==
    \A i \in Ops, j \in Fms :
        /\ Detailed(i)
        /\ cand[i][j].initial_rpn >= 9
        /\ cand[i][j].pc = "done"
        => cand[i][j].validates >= 1

\* C10, witness: severity 4, occurrence 3 in detailed mode, finalized after
\* one VALIDATE call.
C10_Witness ==
    \E i \in Ops, j \in Fms :
        /\ Detailed(i)
        /\ cand[i][j].pc = "done"
        /\ cand[i][j].severity = IntV(4) /\ cand[i][j].occurrence = IntV(3)
        /\ cand[i][j].initial_rpn = 12
        /\ cand[i][j].validates = 1

\* ------------------------------------------------ _generate_with_retry
AllTimedOut == \A k \in 1..Len(outcomes) : outcomes[k] = TimedOut

\* C11: when every attempt times out the error is propagated after exactly
\* retries + 1 attempts, the k-th retry preceded by a sleep of base_delay x
\* k, so that the sleeps grow strictly; an attempt that succeeds ends the
\* call with its answer, and no attempt follows it.
C11_TimeoutRetries ==
    /\ genPc = "raised" /\ AllTimedOut =>
         /\ Len(outcomes) = retries + 1
         /\ Len(delays) = retries
         /\ \A k \in 1..Len(delays) : delays[k] = base_delay * k
         /\ \A k \in 1..Len(delays) - 1 : delays[k] < delays[k + 1]
    /\ genPc # "raised" /\ AllTimedOut => Len(outcomes) <= retries
    /\ \A k \in 1..Len(outcomes) :
         outcomes[k] = Answer => k = Len(outcomes) /\ genPc = "returned"

\* C11, witness: the default call, retries 2 and base_delay 5, all three
\* attempts timed out, sleeps of 5 and 10 seconds, the error propagated.
C11_Witness ==
    /\ retries = DefaultRetries /\ base_delay = DefaultBaseDelay
    /\ genPc = "raised"
    /\ outcomes = <<TimedOut, TimedOut, TimedOut>>
    /\ delays = <<5, 10>>

\* C12: an error of generate() that is no timeout (a transport error
\* reported as "LLM service error", or an unexpected exception) is
\* propagated on the attempt where it occurs: it is the last attempt, the
\* call has raised, and no sleep was taken for it.
NotATimeout(e) == e.kind \in {"service", "other"}
C12_NoRetryOfOtherErrors ==
    \A k \in 1..Len(outcomes) :
        NotATimeout(outcomes[k]) =>
            /\ k = Len(outcomes)
            /\ genPc = "raised"
            /\ Len(delays) = k - 1

\* ------------------------------------------------------ malformed answers
\* C13: for a body that is no JSON generate returns the fallback with its
\* raw marker and does not raise.  A step whose ANALYZE call got the
\* fallback returns the empty sequence: no candidate task, no operation
\* error (for a sink that does not raise).  A candidate whose VALIDATE call
\* got the fallback takes it as not valid with nothing to correct: the
\* ratings stay, retry_count grows by one, and re-RATE follows while
\* retries are left.
AnalyzeFallbackReturnsEmpty ==
    /\ generate(MalformedBody) = Fallback /\ Fallback.raw
    /\ \A i \in Ops :
         analyzed[i].heard /\ analyzed[i].raw =>
            /\ opPc[i] # "gather"
            /\ opOut[i] = <<>>
            /\ \A j \in Fms : cand[i][j].pc = "idle"
            /\ ~sinkFlaky =>
                 opPc[i] = "returned" /\ OperationErrorEvent(i) \notin events
ValidateFallbackStep(i, j) ==
    /\ cand[i][j].pc = "validate"
    /\ cand'[i][j] # cand[i][j]
    /\ cand'[i][j].raw
    => /\ cand'[i][j].severity = cand[i][j].severity
       /\ cand'[i][j].occurrence = cand[i][j].occurrence
       /\ cand'[i][j].retry_count = cand[i][j].retry_count + 1
       /\ cand'[i][j].retry_count < max_retries => cand'[i][j].pc = "rerate"
       /\ cand'[i][j].retry_count >= max_retries => cand'[i][j].pc = "done"
C13_FallbackDegrades ==
    /\ []AnalyzeFallbackReturnsEmpty
    /\ [][\A i \in Ops, j \in Fms : ValidateFallbackStep(i, j)]_vars

\* C13, witness: step 1 got the fallback for ANALYZE and returned nothing;
\* the candidate of step 2, rated 3 and 3, got the fallback for its first
\* VALIDATE and is at re-RATE with the same ratings and retry_count 1.
C13_Witness ==
    /\ analyzed[1].raw /\ opPc[1] = "returned" /\ opOut[1] = <<>>
    /\ cand[2][1].pc = "rerate" /\ cand[2][1].raw
    /\ cand[2][1].validates = 1 /\ cand[2][1].retry_count = 1
    /\ cand[2][1].severity = IntV(3) /\ cand[2][1].occurrence = IntV(3)

Processed(i) == {j \in Fms : cand[i][j].pc # "idle"}
RECURSIVE RateCalls(_, _)
RateCalls(i, j) ==
    IF j > MaxCandidates THEN 0 ELSE cand[i][j].rates + RateCalls(i, j + 1)
C15_FastModeOneCandidate ==
    \A i \in Ops :
        /\ ~Detailed(i) =>
             /\ Processed(i) \subseteq {1}
             /\ RateCalls(i, 1) <= 1
             /\ Len(opOut[i]) <= 1
        /\ Detailed(i) /\ analyzed[i].heard /\ ~sinkFlaky =>
             Processed(i) = 1..analyzed[i].n
        /\ Detailed(i) => Processed(i) \in {{}, 1..analyzed[i].n}

\* C15, witness: a step in fast mode whose ANALYZE answer listed two
\* failure modes has returned the result of the first, the second was
\* never started.
C15_Witness ==
    \E i \in Ops :
        /\ ~Detailed(i)
        /\ analyzed[i].n = 2
        /\ opPc[i] = "returned" /\ opOut[i] = <<1>>
        /\ cand[i][1].pc = "done" /\ cand[i][2].pc = "idle"

\* ---------------------------------------------------- results and events
Occurrences(x, sq) == Cardinality({k \in 1..Len(sq) : sq[k] = x})

\* C16: once its step has ended, a candidate that was finalized has exactly
\* one result in the sequence the step returned and its new_result event
\* in the sink, a candidate that was dropped (ended by the early return or
\* by an exception) has neither; the sequence holds no candidate twice and
\* no more results than the ANALYZE answer listed candidates.  Stated for
\* the runs whose sink never raises.
C16_OneTerminalState ==
    \A i \in Ops :
        ~sinkFlaky /\ OpEnded(i) =>
            /\ \A j \in Fms :
                 /\ cand[i][j].pc = "done" =>
                      /\ Occurrences(j, opOut[i]) = 1
                      /\ NewResultEvent(i, j) \in events
                 /\ cand[i][j].pc \in {"none", "raised"} =>
                      /\ Occurrences(j, opOut[i]) = 0
                      /\ NewResultEvent(i, j) \notin events
            /\ Len(opOut[i]) <= analyzed[i].n

\* C17: the new_result event of every result a step has returned, and of
\* every result a candidate task has returned, is one the sink has handled.
C17_NewResultBeforeReturn ==
    \A i \in Ops :
        /\ \A k \in 1..Len(opOut[i]) : NewResultEvent(i, opOut[i][k]) \in events
        /\ \A j \in Fms :
             cand[i][j].pc = "done" => NewResultEvent(i, j) \in events

\* C17, witness: a step in detailed mode has returned the results of both
\* its candidates, and the sink has handled both new_result events.
C17_Witness ==
    \E i \in Ops :
        /\ opPc[i] = "returned" /\ opOut[i] = <<1, 2>>
        /\ {NewResultEvent(i, 1), NewResultEvent(i, 2)} \subseteq events

\* C18: a sink that raises while it handles an intermediate event drops
\* no candidate: no candidate task is ended by such an exception.
C18_IntermediateEventsForgotten ==
    \A i \in Ops, j \in Fms :
        ~(cand[i][j].pc = "raised" /\ cand[i][j].why = "sink")

\* The steps whose analyze_step was given a sink.
HasSink(i) == opPc[i] # "off" /\ progress_callback[runOf[i]]
HasNoSink(i) == opPc[i] # "off" /\ ~progress_callback[runOf[i]]

\* Two steps have come to the same point of analyze_step: their ANALYZE
\* call is over and every candidate task has ended, before either step
\* returns.
BothAtGather(a, b) ==
    \A i \in {a, b} :
        /\ opPc[i] = "gather"
        /\ \A j \in Fms : cand[i][j].pc \in {"idle"} \cup EndPcs

PhaseEdges ==
    {<<"idle", "wait">>, <<"wait", "rate">>, <<"rate", "validate">>,
     <<"rate", "done">>, <<"validate", "rerate">>, <<"validate", "done">>,
     <<"rerate", "validate">>}
DropEdges ==
    {<<"wait", "none">>} \cup {<<pc, "raised">> : pc \in {"wait"} \cup CallPcs}

\* The model calls a candidate has issued.
CallsIssued(c) == c.rates + c.validates

\* What every state tells of the order of the calls.
PhasesInOrder ==
    \A i \in Ops, j \in Fms :
        /\ cand[i][j].pc # "idle" => analyzed[i].heard
        /\ cand[i][j].pc = "wait" => CallsIssued(cand[i][j]) = 0
        /\ cand[i][j].pc = "rate" =>
              cand[i][j].rates = 1 /\ cand[i][j].validates = 0
        /\ cand[i][j].validates >= 1 =>
              cand[i][j].rates >= 1 /\ cand[i][j].pc # "rate"
        /\ opPc[i] \in {"wait", "analyze"} => cand[i][j].pc = "idle"

\* What every step does to candidate j of step i.
PhaseStep(i, j) ==
    LET c == cand[i][j]
        n == cand'[i][j]
    IN  /\ n.pc # c.pc => <<c.pc, n.pc>> \in PhaseEdges \cup DropEdges
        /\ c.pc \in EndPcs =>
              n.pc = c.pc /\ n.rates <= c.rates /\ n.validates <= c.validates
        /\ CallsIssued(n) <= CallsIssued(c) + 1
        /\ CallsIssued(n) > CallsIssued(c) =>
              /\ n.pc \in CallPcs /\ n.pc # c.pc
              /\ n.pc = "validate" <=> n.validates = c.validates + 1
        /\ n.pc \in CallPcs /\ n.pc # c.pc =>
              CallsIssued(n) = CallsIssued(c) + 1

\* C20: a candidate moves along the edges of its state machine only: the
\* ANALYZE call of its step is answered before its task exists, its first
\* RATE call is answered before any VALIDATE call is issued, every call is
\* issued when the answer to the one before is handled, so that one call
\* at most is outstanding, and no call is issued once it has ended.
C20_PhaseOrder ==
    /\ []PhasesInOrder
    /\ [][\A i \in Ops, j \in Fms : PhaseStep(i, j)]_vars

\* C20, witness: a candidate was finalized after RATE, VALIDATE, CORRECT
\* with the re-issued RATE, and a second VALIDATE.
C20_Witness ==
    \E i \in Ops, j \in Fms :
        /\ cand[i][j].pc = "done" /\ cand[i][j].result # <<>>
        /\ cand[i][j].rates = 2 /\ cand[i][j].validates = 2

\* Nothing of the run is left to do: every step task has ended, and so
\* has every candidate task that was handed to asyncio.gather.
Settled ==
    /\ \A i \in Ops : opPc[i] \in {"off", "returned", "raised"}
    /\ \A i \in Ops, j \in Fms : cand[i][j].pc \in {"idle"} \cup EndPcs

\* C21: in the end every step task that waited for the gate of
\* process_analysis has ended, every analyze_step that was entered has
\* returned or raised, and every candidate task has ended, finalized or
\* dropped: no task waits for a gate for ever.
C21_EverythingEnds == <>Settled

\* C21, witness: with one slot in each gate, a second task has been
\* served after the first: the second step of a run has returned its
\* result after the first, or the second candidate of a step after the
\* first, each after two VALIDATE calls, and every slot is free again.
C21_Witness ==
    /\ Settled
    /\ opSem[runOf[1]] = OperationConcurrency
    /\ \A i \in Ops : candSem[i] = failure_mode_concurrency
    /\ \/ opOut[1] = <<1>> /\ opOut[2] = <<1>>
       \/ opOut[1] = <<1, 2>>

\* C22: for ratings both in 1..5 calculate_rpn returns their product, a
\* value in 1..25, 25 for (5, 5) and 1 for (1, 1); with a rating outside
\* 1..5 it raises ValueError and returns nothing.
C22_RpnIsProduct ==
    rpnOut.st # "not called" =>
        IF ratingS.v \in 1..5 /\ ratingO.v \in 1..5
        THEN /\ rpnOut = Returned(ratingS.v * ratingO.v)
             /\ rpnOut.v \in 1..25
             /\ (ratingS.v = 5 /\ ratingO.v = 5 => rpnOut.v = 25)
             /\ (ratingS.v = 1 /\ ratingO.v = 1 => rpnOut.v = 1)
        ELSE rpnOut.st = "ValueError"

\* C22, witness: calculate_rpn has returned 25 for (5, 5).
C22_Witness ==
    ratingS.v = 5 /\ ratingO.v = 5 /\ rpnOut = Returned(25)

\* low < medium < high.
Rank(risk_level) ==
    IF risk_level = "low" THEN 0 ELSE IF risk_level = "medium" THEN 1 ELSE 2

\* C23: the risk level get_risk_level returns for a pair in 1..5 x 1..5 is
\* not above the level of the pair with the next severity, nor above the
\* level of the pair with the next occurrence; (1, 1) is low, (3, 3) is
\* medium and (5, 5) is high.
C23_RiskLevelMonotonic ==
    riskOut.st = "returned" =>
        /\ ratingS.v < 5 =>
              Rank(get_risk_level(IntV(ratingS.v + 1), ratingO))
                >= Rank(riskOut.v)
        /\ ratingO.v < 5 =>
              Rank(get_risk_level(ratingS, IntV(ratingO.v + 1)))
                >= Rank(riskOut.v)
        /\ (ratingS.v = 1 /\ ratingO.v = 1 => riskOut.v = "low")
        /\ (ratingS.v = 3 /\ ratingO.v = 3 => riskOut.v = "medium")
        /\ (ratingS.v = 5 /\ ratingO.v = 5 => riskOut.v = "high")

\* C23, witness: get_risk_level has returned medium for (4, 2), whose
\* neighbours (5, 2) and (4, 3) are high.
C23_Witness ==
    /\ ratingS.v = 4 /\ ratingO.v = 2 /\ riskOut = Returned("medium")
    /\ get_risk_level(IntV(5), ratingO) = "high"
    /\ get_risk_level(ratingS, IntV(3)) = "high"

\* C24: get_action_required answers yes for high, maybe for medium and no
\* for low, whatever the ratings were; so (5, 5) gives an RPN of 25, a
\* high risk and yes, and (1, 1) an RPN of 1, a low risk and no.
C24_ActionByRiskLevel ==
    /\ actionOut.st # "ValueError"
    /\ actionOut.st = "returned" =>
         /\ riskOut.v = "high" => actionOut.v = "yes"
         /\ riskOut.v = "medium" => actionOut.v = "maybe"
         /\ riskOut.v = "low" => actionOut.v = "no"
         /\ ratingS.v = 5 /\ ratingO.v = 5 =>
               /\ riskOut.v = "high" /\ actionOut.v = "yes"
               /\ rpnOut.st # "not called" => rpnOut = Returned(25)
         /\ ratingS.v = 1 /\ ratingO.v = 1 =>
               /\ riskOut.v = "low" /\ actionOut.v = "no"
               /\ rpnOut.st # "not called" => rpnOut = Returned(1)

\* C24, witness: for (5, 5) the three functions have returned 25, high
\* and yes.
C24_Witness ==
    /\ ratingS.v = 5 /\ ratingO.v = 5
    /\ rpnOut = Returned(25)
    /\ riskOut = Returned("high")
    /\ actionOut = Returned("yes")

\* The shapes of a rating that coercion cannot use: an absent key, null,
\* text that is no number, a mapping holding no convertible value, an
\* integer outside 1..5.
Unusable(raw) ==
    \/ raw \in {Missing, Null, Text, DictBad}
    \/ raw.t = "int" /\ ~InRange(raw)

\* C25: whatever the first RATE answer holds for a rating (nothing, null,
\* text that is no number, a mapping with no convertible value, an integer
\* outside 1..5), that rating is 3 afterwards and the candidate goes on
\* to the skip decision: it is neither dropped nor ended by an exception.
C25_UnusableRatingIsDefault ==
    \A i \in Ops, j \in Fms :
        /\ cand[i][j].pc \notin {"none", "raised"}
        /\ cand[i][j].pc \in {"validate", "rerate", "done"}
             /\ cand[i][j].rates >= 1 =>
              /\ Unusable(script.rate[1]) =>
                    cand[i][j].severity = IntV(DefaultRating)
              /\ Unusable(script.rate[2]) =>
                    cand[i][j].occurrence = IntV(DefaultRating)
        /\ cand[i][j].result # <<>> =>
              /\ Unusable(script.rate[1]) =>
                    cand[i][j].result[1].severity = IntV(DefaultRating)
              /\ Unusable(script.rate[2]) =>
                    cand[i][j].result[1].occurrence = IntV(DefaultRating)

\* C25, witness: the first RATE answer held a mapping with no convertible
\* value for severity and 6 for occurrence, and the candidate was
\* finalized with 3 and 3 after the VALIDATE call.
C25_Witness ==
    /\ script.rate = <<DictBad, IntV(6)>>
    /\ cand[1][1].pc = "done" /\ cand[1][1].validates = 1
    /\ cand[1][1].result # <<>>
    /\ cand[1][1].result[1].severity = IntV(DefaultRating)
    /\ cand[1][1].result[1].occurrence = IntV(DefaultRating)

\* The shapes of a rating that coercion can use on their own: an integer
\* in 1..5, a numeric string or a mapping holding one.
Usable(raw) ==
    raw.t \in {"int", "str", "dict"} /\ InRange(IntV(raw.v))

\* C30: each rating of the first RATE answer is coerced on its own: one
\* that is an integer in 1..5, a numeric string or a mapping holding a
\* convertible value keeps its value whatever the other rating is, any
\* other is 3.
C30_CoercionPerField ==
    \A i \in Ops, j \in Fms :
        cand[i][j].pc \in {"validate", "rerate", "done"}
          /\ cand[i][j].rates >= 1 =>
            /\ cand[i][j].severity =
                  IF Usable(script.rate[1]) THEN IntV(script.rate[1].v)
                  ELSE IntV(DefaultRating)
            /\ cand[i][j].occurrence =
                  IF Usable(script.rate[2]) THEN IntV(script.rate[2].v)
                  ELSE IntV(DefaultRating)

\* The answer the VALIDATE call of candidate c gets from the script.
Verdict(c) == script[CallOf(c)]

\* C26: a candidate issues max_retries VALIDATE calls at most, and the
\* step that handles a VALIDATE answer reporting valid finalizes it: no
\* VALIDATE, CORRECT or re-issued RATE comes after.
ValidAnswerStep(i, j) ==
    LET c == cand[i][j]
        n == cand'[i][j]
    IN  c.pc = "validate" /\ n # c /\ Verdict(c).valid =>
            /\ n.pc = "done"
            /\ n.retry_count = c.retry_count
            /\ n.validates = c.validates /\ n.rates = c.rates
AfterDoneStep(i, j) ==
    LET c == cand[i][j]
        n == cand'[i][j]
    IN  c.pc = "done" =>
            /\ n.pc = "done"
            /\ n.validates <= c.validates /\ n.rates <= c.rates
            /\ n.retry_count <= c.retry_count
C26_LoopBounded ==
    /\ [](\A i \in Ops, j \in Fms : cand[i][j].validates <= max_retries)
    /\ [][\A i \in Ops, j \in Fms :
            ValidAnswerStep(i, j) /\ AfterDoneStep(i, j)]_vars

\* C26, witness: a candidate was finalized by its second VALIDATE answer,
\* which reported valid after one correction.
C26_Witness ==
    /\ script.again.valid /\ ~script.validate.valid
    /\ cand[1][1].pc = "done" /\ cand[1][1].result # <<>>
    /\ cand[1][1].validates = max_retries
    /\ cand[1][1].retry_count = 1

\* A correction that is absent or null.
NoCorrection(r) == r \in {Null, Missing}

\* C27: the step that handles a VALIDATE answer reporting not valid leaves
\* alone each rating whose correction is absent or null, changes a rating
\* only to the correction the answer carries for it, and adds exactly 1
\* to retry_count.
CorrectStep(i, j) ==
    LET c == cand[i][j]
        n == cand'[i][j]
        resp == Verdict(c)
    IN  c.pc = "validate" /\ n # c /\ ~resp.valid =>
            /\ n.retry_count = c.retry_count + 1
            /\ NoCorrection(resp.cs) => n.severity = c.severity
            /\ NoCorrection(resp.co) => n.occurrence = c.occurrence
            /\ n.severity # c.severity =>
                  ~NoCorrection(resp.cs) /\ n.severity = resp.cs
            /\ n.occurrence # c.occurrence =>
                  ~NoCorrection(resp.co) /\ n.occurrence = resp.co
C27_CorrectFrame ==
    [][\A i \in Ops, j \in Fms : CorrectStep(i, j)]_vars

\* C28: the answer to the re-issued RATE call changes no rating: the
\* ratings the next VALIDATE call checks are those CORRECT left.
RerateStep(i, j) ==
    LET c == cand[i][j]
        n == cand'[i][j]
    IN  c.pc = "rerate" /\ n # c =>
            /\ n.pc = "validate"
            /\ n.severity = c.severity
            /\ n.occurrence = c.occurrence
C28_RerateKeepsRatings ==
    [][\A i \in Ops, j \in Fms : RerateStep(i, j)]_vars

\* C29: the step that handles a VALIDATE answer reporting not valid, once
\* it has counted the correction, re-issues RATE when retry_count is
\* still below max_retries and only then; otherwise it finalizes the
\* candidate without another call.  So a candidate issues
\* 1 + (max_retries - 1) RATE calls at most, and 2 x max_retries calls at
\* most.
CorrectedStep(i, j) ==
    LET c == cand[i][j]
        n == cand'[i][j]
    IN  c.pc = "validate" /\ n # c /\ ~Verdict(c).valid
          /\ Verdict(c).corr = "dict" =>
            /\ n.pc = "rerate" <=> n.retry_count < max_retries
            /\ n.pc = "rerate" =>
                  n.rates = c.rates + 1 /\ n.validates = c.validates
            /\ n.retry_count >= max_retries =>
                  /\ n.pc = "done" /\ n.result # <<>>
                  /\ n.rates = c.rates /\ n.validates = c.validates
CallsBounded ==
    \A i \in Ops, j \in Fms :
        /\ cand[i][j].rates <= 1 + (max_retries - 1)
        /\ CallsIssued(cand[i][j]) <= 2 * max_retries
C29_RerateGuard ==
    /\ []CallsBounded
    /\ [][\A i \in Ops, j \in Fms : CorrectedStep(i, j)]_vars

\* C29, witness: a candidate was finalized right after its second
\* correction, having issued two RATE and two VALIDATE calls.
C29_Witness ==
    /\ ~script.validate.valid /\ ~script.again.valid
    /\ cand[1][1].pc = "done" /\ cand[1][1].result # <<>>
    /\ cand[1][1].retry_count = max_retries
    /\ cand[1][1].rates = max_retries
    /\ CallsIssued(cand[1][1]) = 2 * max_retries

\* C31: when the risk engine refuses the ratings of one candidate at
\* FINALIZE and nothing else of the step fails, only that candidate is
\* dropped: analyze_step does not raise, so process_operation reports no
\* operation error, and the sequence it returns holds the result of every
\* other candidate that was finalized.
EngineRaised(i) ==
    /\ \E j \in Fms : cand[i][j].pc = "raised"
    /\ \A j \in Fms : cand[i][j].pc = "raised" => cand[i][j].why = "engine"
C31_EngineErrorDropsOne ==
    \A i \in Ops :
        ~sinkFlaky /\ OpEnded(i) /\ EngineRaised(i) =>
            /\ opPc[i] = "returned"
            /\ OperationErrorEvent(i) \notin events
            /\ \A k \in Fms : cand[i][k].pc = "done" => InSeq(k, opOut[i])

\* analyze_step has raised for step i: its ANALYZE call did, or asyncio
\* gather handed on the exception of a candidate task.
AnalyzeStepRaised(i) ==
    /\ OpEnded(i)
    /\ ~analyzed[i].heard \/ \E j \in Fms : cand[i][j].pc = "raised"

RunEnded(r) == runStatus[r] \in {"completed", "failed"}

\* C32: with a sink that never raises, a step whose analyze_step raised
\* has returned an empty list and its error event is in the sink; the slot
\* of the step gate is free once the steps of a run have ended; and the
\* run ends completed, with the results every other step returned saved.
C32_StepErrorContained ==
    ~sinkFlaky =>
        /\ \A i \in Ops :
             AnalyzeStepRaised(i) =>
                /\ opPc[i] = "returned" /\ opOut[i] = <<>>
                /\ OperationErrorEvent(i) \in events
        /\ \A r \in Runs :
             (\A i \in OpsOf(r) : OpEnded(i)) => opSem[r] = OperationConcurrency
        /\ \A r \in Runs :
             RunEnded(r) =>
                /\ runStatus[r] = "completed"
                /\ \A k \in OpsOf(r) :
                     /\ opPc[k] = "returned"
                     /\ \A m \in 1..Len(opOut[k]) :
                          InSeq(<<k, opOut[k][m]>>, saved[r])

\* C32, witness: analyze_step raised for the first step of a run, at its
\* ANALYZE call; the second step was analyzed after it and the run ended
\* completed with the result of the second step saved.
C32_Witness ==
    /\ ~sinkFlaky /\ runOf[1] = runOf[2]
    /\ AnalyzeStepRaised(1) /\ ~analyzed[1].heard
    /\ OperationErrorEvent(1) \in events
    /\ analyzed[2].heard /\ opOut[2] = <<1>>
    /\ runStatus[runOf[1]] = "completed"
    /\ saved[runOf[1]] = <<<<2, 1>>>>


\* What the step gave for the three fields the default reads.
OwnSubprocess == process_step.subprocess.s
StepsGiven == process_step.steps.l
DetailsLine == Strip(FirstLine(process_step.details.s))
Built == subprocess_name.st = "returned"

\* C33 as stated, its last sentence: whenever the step has neither a
\* subprocess nor steps, the subprocess field is the first line of details,
\* however long that line is.
C33_FirstLineAlwaysUsed ==
    Built /\ OwnSubprocess = <<>> /\ StepsGiven = <<>> =>
        subprocess_name.v = DetailsLine

\* C33 amended: the subprocess field is the step's own subprocess when that
\* is not empty; else the first entry of steps when there is one; else the
\* first line of details when that line is not empty and under 100
\* characters; else the empty text.
C33_SubprocessDefault ==
    Built =>
        subprocess_name.v =
            IF OwnSubprocess # <<>> THEN OwnSubprocess
            ELSE IF StepsGiven # <<>> THEN StepsGiven[1]
            ELSE IF DetailsLine # <<>> /\ Len(DetailsLine) < 100
                 THEN DetailsLine
            ELSE <<>>

\* A result whose subprocess is a first line of 99 characters that details
\* gave with whitespace around it and a second line after it.
C33_Witness ==
    /\ Built
    /\ OwnSubprocess = <<>> /\ StepsGiven = <<>>
    /\ Len(process_step.details.s) > 100
    /\ Len(subprocess_name.v) = 99
    /\ subprocess_name.v = DetailsLine


\* C34: every pair of ratings the table calls high has a product of 9 or
\* more, and every pair with a product of 9 or more is medium or high; so
\* in detailed mode a candidate whose first ratings are high-risk has a
\* VALIDATE call issued for it, and a result finalized with no VALIDATE
\* call has risk level low or medium.
HoldsFirstRatings(i, j) ==
    /\ PastRate(i, j)
    /\ cand[i][j].retry_count = 0
    /\ RatingsAccepted(cand[i][j].severity, cand[i][j].occurrence)
C34_HighRiskIsValidated ==
    /\ \A s \in 1..5, o \in 1..5 :
         /\ MATRIX[s][o] = "high" => s * o >= 9
         /\ s * o >= 9 => MATRIX[s][o] \in {"medium", "high"}
    /\ \A i \in Ops, j \in Fms :
         /\ Detailed(i) /\ HoldsFirstRatings(i, j)
            /\ get_risk_level(cand[i][j].severity, cand[i][j].occurrence)
                 = "high"
            => cand[i][j].validates >= 1
         /\ Detailed(i) /\ cand[i][j].result # <<>>
            /\ cand[i][j].validates = 0
            => cand[i][j].result[1].risk_level \in {"low", "medium"}

\* C34, witness: in detailed mode severity 4, occurrence 2, the pair of
\* the largest product below 9, is finalized as medium with no VALIDATE
\* call.
C34_Witness ==
    \E i \in Ops, j \in Fms :
        /\ Detailed(i) /\ HoldsFirstRatings(i, j)
        /\ cand[i][j].result # <<>>
        /\ cand[i][j].validates = 0
        /\ cand[i][j].severity = IntV(4)
        /\ cand[i][j].occurrence = IntV(2)
        /\ cand[i][j].result[1].risk_level = "medium"


\* The answers the VALIDATE calls of a finalized candidate got, in order,
\* and how many of them reported not valid.
Verdicts(c) ==
    IF c.validates >= 2 THEN <<script.validate, script.again>>
    ELSE IF c.validates = 1 THEN <<script.validate>>
    ELSE <<>>
NotValidCount(c) ==
    Cardinality({k \in 1..Len(Verdicts(c)) : ~Verdicts(c)[k].valid})
LastVerdict(c) == Verdicts(c)[Len(Verdicts(c))]

\* C35: for every finalized candidate that entered the VALIDATE loop,
\* retry_count is the number of VALIDATE answers that reported not valid,
\* and retry_count < max_retries exactly when its last VALIDATE answer
\* reported valid; a result with retry_count = max_retries was finalized by
\* the step that handled the last VALIDATE answer, with the ratings CORRECT
\* stored in that step: no RATE and no VALIDATE call came after.
CountsNotValid(i, j) ==
    LET c == cand[i][j]
    IN  c.result # <<>> /\ c.validates >= 1 =>
            /\ c.retry_count = NotValidCount(c)
            /\ c.retry_count < max_retries <=> LastVerdict(c).valid
            /\ c.retry_count = max_retries =>
                 c.validates = max_retries /\ c.rates = max_retries
LastCorrectStep(i, j) ==
    LET c == cand[i][j]
        n == cand'[i][j]
    IN  n # c /\ n.result # <<>> /\ n.retry_count = max_retries =>
            /\ c.pc = "validate" /\ ~Verdict(c).valid
            /\ n.severity = ApplyCorrection(c.severity, Verdict(c).cs)
            /\ n.occurrence = ApplyCorrection(c.occurrence, Verdict(c).co)
            /\ n.result[1].severity = n.severity
            /\ n.result[1].occurrence = n.occurrence
            /\ n.validates = c.validates /\ n.rates = c.rates
C35_RetryCountCountsNotValid ==
    /\ [](\A i \in Ops, j \in Fms : CountsNotValid(i, j))
    /\ [][\A i \in Ops, j \in Fms : LastCorrectStep(i, j)]_vars

\* C35, witness: a result with retry_count = max_retries whose second
\* VALIDATE answer reported not valid and corrected the severity to 2.
C35_Witness ==
    /\ ~script.validate.valid /\ ~script.again.valid
    /\ script.again.cs = IntV(2)
    /\ cand[1][1].result # <<>>
    /\ cand[1][1].retry_count = max_retries
    /\ cand[1][1].validates = max_retries
    /\ cand[1][1].result[1].severity = IntV(2)


\* The runs of process_analysis that are scheduled or under way.
RunsPending == {k \in Requests : taskPc[k] \notin NoRunFor}

\* C36: for one analysis id at most one run of process_analysis is
\* scheduled or under way at a time: a start_analysis that arrives while
\* one is, is answered 'already in progress' and schedules nothing, and the
\* results of the analysis are inserted once at most.
SecondStartRefused ==
    Len(replies') > Len(replies) /\ RunsPending # {} =>
        /\ replies'[Len(replies')] = "Analysis already in progress"
        /\ taskPc' = taskPc
C36_OneRunAtATime ==
    /\ [](Cardinality(RunsPending) <= 1 /\ Len(inserted) <= 1)
    /\ [][SecondStartRefused]_vars


\* C37: every run of process_analysis ends having committed 'completed' or
\* 'failed' as the last status it wrote, so that with no run pending the
\* analysis is never left 'processing', and every scheduled run ends.  A
\* PDF with no operations and an exception that reaches the outer except
\* give 'failed'; 'completed' is written only by the step that handed the
\* gathered results to the database, and a run that gathered no result,
\* every step having errored, writes 'completed' and inserts nothing.
Moves(k, from, to) == taskPc[k] = from /\ taskPc'[k] = to
FinalStatus == {"completed", "failed"}
RunWritesFinalStatus(k) ==
    /\ taskPc'[k] = "returned" /\ taskPc[k] # "returned" =>
         Moves(k, "notify", "returned") \/ Moves(k, "handler", "returned")
    /\ taskPc'[k] = "notify" /\ taskPc[k] # "notify" =>
         status' \in FinalStatus
    /\ Moves(k, "parse", "notify") => status' = "failed"
    /\ Moves(k, "handler", "returned") => status' = "failed"
    /\ Moves(k, "notify", "returned") => status' = status
    /\ Moves(k, "save", "notify") =>
         /\ status' = "completed"
         /\ inserted' = IF all_results[k] = 0 THEN inserted
                        ELSE Append(inserted, <<k, all_results[k]>>)
CompletedOnlyBySave ==
    status' = "completed" /\ status # "completed" =>
        \E k \in Requests : Moves(k, "save", "notify")
C37_RunEndsCompletedOrFailed ==
    /\ [](RunsPending = {} /\ replies # <<>> => status \in FinalStatus)
    /\ [][/\ \A k \in Requests : RunWritesFinalStatus(k)
          /\ CompletedOnlyBySave]_vars
    /\ \A k \in Requests :
         taskPc[k] = "scheduled" ~> taskPc[k] = "returned"

\* C37, witness: the only run requested gathered no result, every step
\* having errored, and ended 'completed' with nothing inserted.
C37_Witness ==
    /\ replies = <<"Analysis started">>
    /\ taskPc[1] = "returned"
    /\ status = "completed"
    /\ all_results[1] = 0 /\ inserted = <<>>


\* C38: the registry holds live connections only: a connection whose
\* websocket_endpoint has returned is not registered, a connection whose
\* send failed inside a send_message call is not registered when that call
\* is over, and no analysis id has an empty set.
ReturnedIsGone ==
    \A ws \in Connections : wsPc[ws] = "returned" => ~Registered(ws)
NoEmptySet ==
    \A id \in DOMAIN active_connections : active_connections[id] # {}
FailedSendIsGone ==
    sending.pc = "loop" /\ sending'.pc = "idle" =>
        \A ws \in sending.disconnected :
            ~RegisteredIn(active_connections', ws)
C38_OnlyLiveConnections ==
    /\ [](ReturnedIsGone /\ NoEmptySet)
    /\ [][FailedSendIsGone]_vars


\* C39: the sequence a step returns lists its surviving candidates in the
\* order in which ANALYZE listed them, and the results a run saves are the
\* sequences of its steps one after the other, in the order of the steps:
\* each result once, step by step, candidate by candidate.
Before(x, y) == x[1] < y[1] \/ (x[1] = y[1] /\ x[2] < y[2])
InListedOrder(i) ==
    \A a \in 1..Len(opOut[i]), b \in 1..Len(opOut[i]) :
        a < b => opOut[i][a] < opOut[i][b]
InStepOrder(r) ==
    /\ \A a \in 1..Len(saved[r]), b \in 1..Len(saved[r]) :
         a < b => Before(saved[r][a], saved[r][b])
    /\ runStatus[r] = "completed" =>
         {saved[r][a] : a \in 1..Len(saved[r])}
           = UNION {{<<i, opOut[i][b]>> : b \in 1..Len(opOut[i])} :
                       i \in OpsOf(r)}
====
